---- MODULE Spec2Model ----
(***************************************************************************)
(* A model of the git-watcher webhook relay: the GitHub event parser, the  *)
(* event-deduplication cache, the push message formatter, the rate-limited *)
(* Telegram client and the notification orchestrator that composes them.   *)
(*                                                                         *)
(* Text is a sequence of one-character strings, so that concatenation,     *)
(* replacement, case folding and percent-decoding are computed, not        *)
(* assumed.  An optional value (undefined / null / absent property) is the *)
(* empty sequence None, a present one the one-element sequence Some(v).    *)
(*                                                                         *)
(* Time is counted in ticks of 1000/90 ms, a third of the rate-limit delay *)
(* of 1000/30 ms.                                                          *)
(***************************************************************************)
EXTENDS Integers, Sequences, FiniteSets, TLC

(***************************************************************************)
(* Bounds of the model                                                     *)
(***************************************************************************)
\* Largest maxCacheSize a cache is constructed with explicitly.
MaxCap == 2
\* The capacity a cache constructed without an argument gets; it stands for the
\* default of 10000 entries, scaled down so that the cache can fill up.
DefaultMaxCacheSize == 2
\* The expiration window a cache constructed without an argument gets, in
\* ticks; it stands for the default of 24 hours and, like it, is longer than
\* any delivery takes.
DefaultCacheExpirationMs == 4
\* The clock of the cache on its own runs from StartTime to StartTime + MaxTime.
MaxTime == 2
\* The clock of the orchestrator and of the Telegram client runs from StartTime
\* to StartTime + MaxClock.
MaxClock == 3
\* Number of processGitHubEvent invocations followed in the orchestrator.
NumTasks == 2
\* Number of concurrent callers of the Telegram client followed on their own.
NumCallers == 3
\* Longest time the Telegram API takes to answer a sequential caller, in thirds
\* of a millisecond.
MaxLatency == 3
\* Longest time a timer fires after it is due, in thirds of a millisecond.
MaxLate == 1
\* Largest number of commits of the pushes that are parsed and formatted.
MaxCommits == 6
\* Largest maxCacheSize of the caches that are filled with distinct events.
MaxEvictCap == 20
\* Number of distinct events inserted into such a cache.
MaxInserts == 25

(***************************************************************************)
(* State                                                                   *)
(***************************************************************************)
VARIABLES
    now,              \* the wall clock, Date.now(), in ticks
    processedEvents,  \* EventDeduplicationService.processedEvents
    maxCacheSize,     \* EventDeduplicationService.maxCacheSize
    cacheExpirationMs,\* EventDeduplicationService.cacheExpirationMs
    cleanupTimer,     \* TRUE while the hourly sweep timer is set
    lastMessageTime,  \* TelegramClient.lastMessageTime
    tasks,            \* the processGitHubEvent invocations, by number
    sendLog,          \* the sendMessage invocations so far, in order
    last,             \* the last operation called on the cache and its result
    webhookSecret,    \* config.github.webhookSecret
    exchanges,        \* the POST /webhook requests and their responses, by task
    running           \* FALSE once the process has exited

vars == << now, processedEvents, maxCacheSize, cacheExpirationMs, cleanupTimer,
           lastMessageTime, tasks, sendLog, last, webhookSecret, exchanges, running >>

(***************************************************************************)
(* Optional values and text                                                *)
(***************************************************************************)
None == << >>
Some(v) == << v >>
IsSome(o) == o # << >>
Get(o) == o[1]

Max(a, b) == IF a >= b THEN a ELSE b
Min(a, b) == IF a <= b THEN a ELSE b

\* s.slice(0, n) of an array
Slice(s, n) == SubSeq(s, 1, Min(n, Len(s)))

T_push == << "p", "u", "s", "h" >>
T_ping == << "p", "i", "n", "g" >>
T_issues == << "i", "s", "s", "u", "e", "s" >>
Colon == << ":" >>

\* JavaScript truthiness of an optional string: absent and '' are falsy.
Truthy(o) == IsSome(o) /\ Get(o) # << >>

\* Decimal rendering of a number in a template literal.
Digit(d) == << "0", "1", "2", "3", "4", "5", "6", "7", "8", "9" >>[d + 1]
RECURSIVE ToText(_)
ToText(n) == IF n < 10 THEN << Digit(n) >> ELSE ToText(n \div 10) \o << Digit(n % 10) >>

\* Index of the first occurrence of pat in s, 0 when there is none.
IndexOf(s, pat) ==
    LET hits == { i \in 1..(Len(s) - Len(pat) + 1) : SubSeq(s, i, i + Len(pat) - 1) = pat }
    IN  IF hits = {} THEN 0 ELSE CHOOSE i \in hits : \A j \in hits : i <= j

\* String.prototype.replace with a string pattern: the first occurrence only.
ReplaceFirst(s, pat, rep) ==
    LET i == IndexOf(s, pat)
    IN  IF i = 0 THEN s
        ELSE SubSeq(s, 1, i - 1) \o rep \o SubSeq(s, i + Len(pat), Len(s))

UpperLetters == << "A", "B", "C", "D", "E", "F", "G", "H", "I", "J", "K", "L", "M",
                   "N", "O", "P", "Q", "R", "S", "T", "U", "V", "W", "X", "Y", "Z" >>
LowerLetters == << "a", "b", "c", "d", "e", "f", "g", "h", "i", "j", "k", "l", "m",
                   "n", "o", "p", "q", "r", "s", "t", "u", "v", "w", "x", "y", "z" >>
LowerChar(c) ==
    IF \E i \in 1..26 : UpperLetters[i] = c
    THEN LowerLetters[CHOOSE i \in 1..26 : UpperLetters[i] = c]
    ELSE c
\* A case folding that leaves the text as it is
toLowerCase_asIs(s) == s

\* String.prototype.toLowerCase
toLowerCase(s) == [ i \in 1..Len(s) |-> LowerChar(s[i]) ]

(***************************************************************************)
(* EventDeduplicationService: the cache is the Map processedEvents, kept   *)
(* as the sequence of its [key, entry] pairs in insertion order.           *)
(***************************************************************************)
\* The constructor's `maxCacheSize || 10000`; 0 stands for an absent argument.
ConfiguredMaxCacheSize(arg) == IF arg = 0 THEN DefaultMaxCacheSize ELSE arg
\* The constructor's `cacheExpirationMs || 24 * 60 * 60 * 1000`
ConfiguredCacheExpirationMs(arg) == IF arg = 0 THEN DefaultCacheExpirationMs ELSE arg

\* A key that leaves the head commit out
generateEventKey_noHeadCommit(event) ==
    event.eventType \o Colon \o event.eventId \o Colon \o event.repository

\* A key that leaves the delivery id out
generateEventKey_noDeliveryId(event) ==
    LET key == event.eventType \o Colon \o event.repository
    IN  IF event.eventType = T_push /\ IsSome(event.details.headCommit)
        THEN key \o Colon \o Get(event.details.headCommit).id
        ELSE key

generateEventKey(event) ==
    LET key == event.eventType \o Colon \o event.eventId \o Colon \o event.repository
    IN  IF event.eventType = T_push /\ IsSome(event.details.headCommit)
        THEN key \o Colon \o Get(event.details.headCommit).id
        ELSE key

MapKeys(m) == { m[i].key : i \in 1..Len(m) }
MapHas(m, key) == key \in MapKeys(m)

\* Map.prototype.set: an existing key keeps its position, a new one is appended.
MapSet(m, key, entry) ==
    IF MapHas(m, key)
    THEN [ i \in 1..Len(m) |-> IF m[i].key = key THEN [key |-> key, entry |-> entry] ELSE m[i] ]
    ELSE Append(m, [key |-> key, entry |-> entry])

\* Map.prototype.delete for a set of keys
MapDeleteAll(m, keys) == SelectSeq(m, LAMBDA p : p.key \notin keys)

\* A duplicate check that honours the expiration window at read time
isDuplicate_lazyExpiry(m, event) ==
    \E i \in 1..Len(m) : /\ m[i].key = generateEventKey(event)
                          /\ now - m[i].entry.timestamp <= cacheExpirationMs

isDuplicate(m, event) == MapHas(m, generateEventKey(event))

\* A sort that is not stable: an element goes before the elements equal to it.
RECURSIVE InsertSorted_unstable(_, _)
InsertSorted_unstable(sorted, p) ==
    IF sorted = << >> THEN << p >>
    ELSE IF Head(sorted).entry.timestamp < p.entry.timestamp
         THEN << Head(sorted) >> \o InsertSorted_unstable(Tail(sorted), p)
         ELSE << p >> \o sorted

\* Array.prototype.sort with the comparator a.timestamp - b.timestamp: a stable
\* sort, here by insertion of each element after the elements not greater.
RECURSIVE InsertSorted(_, _)
InsertSorted(sorted, p) ==
    IF sorted = << >> THEN << p >>
    ELSE IF Head(sorted).entry.timestamp <= p.entry.timestamp
         THEN << Head(sorted) >> \o InsertSorted(Tail(sorted), p)
         ELSE << p >> \o sorted

RECURSIVE SortByTimestamp(_)
SortByTimestamp(entries) ==
    IF entries = << >> THEN << >>
    ELSE InsertSorted(SortByTimestamp(SubSeq(entries, 1, Len(entries) - 1)),
                      entries[Len(entries)])

\* An eviction that takes the entries in insertion order, without the sort
KeysToRemove_unsorted(m, maxSize) ==
    LET targetSize == (maxSize * 9) \div 10
        countToRemove == Max(1, Len(m) - targetSize)
        removed == Slice(m, countToRemove)
    IN  { removed[i].key : i \in 1..Len(removed) }

\* An eviction that frees one slot only
KeysToRemove_one(m, maxSize) ==
    LET entries == SortByTimestamp(m)
    IN  { entries[1].key }

\* The keys evictOldestEntries removes.
KeysToRemove(m, maxSize) ==
    LET entries == SortByTimestamp(m)
        targetSize == (maxSize * 9) \div 10
        countToRemove == Max(1, Len(m) - targetSize)
        removed == Slice(entries, countToRemove)
    IN  { removed[i].key : i \in 1..Len(removed) }

evictOldestEntries(m, maxSize) == MapDeleteAll(m, KeysToRemove(m, maxSize))

EntryOf(event) ==
    [ eventId |-> event.eventId, eventType |-> event.eventType,
      repository |-> event.repository, timestamp |-> event.timestamp,
      processed |-> TRUE ]

\* An insertion that evicts one entry too late
markAsProcessed_lateEviction(m, event, maxSize) ==
    LET inserted == MapSet(m, generateEventKey(event), EntryOf(event))
    IN  IF Len(inserted) > maxSize + 1 THEN evictOldestEntries(inserted, maxSize)
        ELSE inserted

markAsProcessed(m, event, maxSize) ==
    LET inserted == MapSet(m, generateEventKey(event), EntryOf(event))
    IN  IF Len(inserted) > maxSize THEN evictOldestEntries(inserted, maxSize)
        ELSE inserted

\* A check that marks the event again and reports it as new when it is cached
checkAndMarkProcessed_alwaysNew(m, event, maxSize) ==
    [cache |-> markAsProcessed(m, event, maxSize), ret |-> FALSE]

\* A check that reports a new event without marking it
checkAndMarkProcessed_noMark(m, event, maxSize) ==
    IF isDuplicate(m, event) THEN [cache |-> m, ret |-> TRUE]
    ELSE [cache |-> m, ret |-> FALSE]

\* The cache after the call and the value the call returns.
checkAndMarkProcessed(m, event, maxSize) ==
    IF isDuplicate(m, event) THEN [cache |-> m, ret |-> TRUE]
    ELSE [cache |-> markAsProcessed(m, event, maxSize), ret |-> FALSE]

\* A scan that stops at the entry inserted first
OldestEntry_first(m) ==
    IF m = << >> THEN None ELSE Some(m[1].entry.timestamp)

\* The oldest timestamp of getCacheStats, absent for an empty cache
OldestEntry(m) ==
    IF m = << >> THEN None
    ELSE Some(CHOOSE t \in { m[i].entry.timestamp : i \in 1..Len(m) } :
                \A j \in 1..Len(m) : t <= m[j].entry.timestamp)

getCacheStats(m, maxSize) ==
    [ size |-> Len(m), maxSize |-> maxSize, oldestEntry |-> OldestEntry(m) ]

\* A sweep that also removes the entries whose age equals the window
cleanupExpiredEntries_inclusive(m, t, expirationMs) ==
    MapDeleteAll(m, { m[i].key : i \in { j \in 1..Len(m) :
                                          t - m[j].entry.timestamp >= expirationMs } })

cleanupExpiredEntries(m, t, expirationMs) ==
    LET expiredKeys == { m[i].key : i \in { j \in 1..Len(m) :
                                            t - m[j].entry.timestamp > expirationMs } }
    IN  MapDeleteAll(m, expiredKeys)

(***************************************************************************)
(* GitHubEventParser                                                       *)
(***************************************************************************)
ZeroSha == [ i \in 1..40 |-> "0" ]
RefsHeads == << "r", "e", "f", "s", "/", "h", "e", "a", "d", "s", "/" >>

Fault == [ fault |-> TRUE ]
Ok(v) == [ fault |-> FALSE, value |-> v ]

\* An extractor that counts the commits it keeps
parsePushEvent_countsKept(baseEvent, payload) ==
    IF ~IsSome(payload.ref) THEN [ fault |-> TRUE, value |-> << >> ]
    ELSE LET kept == IF IsSome(payload.commits)
                     THEN Slice(Get(payload.commits), 5) ELSE << >>
         IN  [ fault |-> FALSE,
               value |-> [ baseEvent EXCEPT !.details =
                   [ branch |-> ReplaceFirst(Get(payload.ref), RefsHeads, << >>),
                     commitCount |-> Len(kept),
                     isNewBranch |-> payload.before = Some(ZeroSha),
                     isDeleteBranch |-> payload.after = Some(ZeroSha),
                     commits |-> IF IsSome(payload.commits) THEN Some(kept) ELSE None,
                     headCommit |-> payload.head_commit,
                     compareUrl |-> payload.compare ] ] ]

\* A property read on an absent object throws a TypeError.
parsePushEvent(baseEvent, payload) ==
    IF ~IsSome(payload.ref) THEN Fault
    ELSE Ok([ baseEvent EXCEPT !.details =
            [ branch |-> ReplaceFirst(Get(payload.ref), RefsHeads, << >>),
              commitCount |-> IF IsSome(payload.commits) THEN Len(Get(payload.commits)) ELSE 0,
              isNewBranch |-> payload.before = Some(ZeroSha),
              isDeleteBranch |-> payload.after = Some(ZeroSha),
              commits |-> IF IsSome(payload.commits)
                          THEN Some(Slice(Get(payload.commits), 5)) ELSE None,
              headCommit |-> payload.head_commit,
              compareUrl |-> payload.compare ] ])

parseIssuesEvent(baseEvent, payload) ==
    IF ~IsSome(payload.issue) THEN Fault
    ELSE LET issue == Get(payload.issue)
         IN  Ok([ baseEvent EXCEPT !.details =
                 [ number |-> issue.number, title |-> issue.title,
                   url |-> issue.html_url, state |-> issue.state,
                   author |-> issue.user ] ])

\* t is the value of `new Date()` at the call.
parseEvent(eventType, deliveryId, payload, t) ==
    IF ~IsSome(payload.repository) \/ ~IsSome(payload.sender) THEN Fault
    ELSE LET baseEvent ==
                 [ eventType |-> eventType,
                   eventId |-> deliveryId,
                   repository |-> Get(payload.repository).full_name,
                   repositoryUrl |-> Get(payload.repository).html_url,
                   sender |-> Get(payload.sender).login,
                   senderUrl |-> Get(payload.sender).html_url,
                   action |-> IF Truthy(payload.action) THEN payload.action ELSE None,
                   details |-> << >>,
                   timestamp |-> t ]
         IN  CASE eventType = T_push -> parsePushEvent(baseEvent, payload)
               [] eventType = T_issues -> parseIssuesEvent(baseEvent, payload)
               [] OTHER -> Ok(baseEvent)

(***************************************************************************)
(* Sample webhook payloads                                                 *)
(***************************************************************************)
Sha_a == [ i \in 1..40 |-> "a" ]
Sha_b == [ i \in 1..40 |-> "b" ]
RepoUrl == << "h", ":", "/", "/", "g", "/", "A", "/", "w" >>
CompareUrl == << "h", ":", "/", "/", "g", "/", "A", "/", "w", "/", "c" >>
Repository == [ full_name |-> << "A", "c", "m", "e", "/", "w" >>, html_url |-> RepoUrl ]
Sender == [ login |-> << "A", "l", "i", "c", "e" >>,
            html_url |-> << "h", ":", "/", "/", "g", "/", "A" >> ]
RefMain == RefsHeads \o << "M", "a", "i", "n" >>

Commit(id, message, added) ==
    [ id |-> id, message |-> message, added |-> added, removed |-> << >>,
      modified |-> << >> ]

File_a == << "a", ".", "t", "s" >>
Msg_fix == << "F", "i", "x", "+", "i", "t" >>
\* A commit message with a literal per-cent sign, not a valid escape sequence.
Msg_percent == << "1", "0", "0", "%" >>

EmptyPayload ==
    [ repository |-> None, sender |-> None, action |-> None, ref |-> None,
      before |-> None, after |-> None, commits |-> None, head_commit |-> None,
      compare |-> None, issue |-> None, zen |-> None ]

PushPayload(before, after, commits) ==
    [ EmptyPayload EXCEPT !.repository = Some(Repository), !.sender = Some(Sender),
                          !.ref = Some(RefMain), !.before = Some(before),
                          !.after = Some(after), !.commits = Some(commits),
                          !.head_commit = IF commits = << >> THEN None
                                          ELSE Some(commits[Len(commits)]),
                          !.compare = Some(CompareUrl) ]

\* A normal push of one commit, head commit c1
P_push1 == PushPayload(Sha_a, Sha_b, << Commit(<< "c", "1" >>, Some(Msg_fix), << File_a >>) >>)
\* The same push with another head commit
P_push2 == PushPayload(Sha_a, Sha_b, << Commit(<< "c", "2" >>, Some(Msg_fix), << >>) >>)
\* A push that creates a branch
P_newBranch == PushPayload(ZeroSha, Sha_b, << Commit(<< "c", "1" >>, Some(Msg_fix), << >>) >>)
\* A push whose commit message holds a literal per-cent sign
P_percent == PushPayload(Sha_a, Sha_b, << Commit(<< "c", "3" >>, Some(Msg_percent), << >>) >>)
\* A push payload without the ref property
P_noRef == [ P_push1 EXCEPT !.ref = None ]
\* A push payload without the commits property
P_noCommits == [ P_push1 EXCEPT !.commits = None ]
\* An issues payload
P_issue ==
    [ EmptyPayload EXCEPT !.repository = Some(Repository), !.sender = Some(Sender),
                          !.action = Some(<< "o", "p", "e", "n", "e", "d" >>),
                          !.issue = Some([ number |-> 7, title |-> << "B", "u", "g" >>,
                                           html_url |-> RepoUrl,
                                           state |-> << "o", "p", "e", "n" >>,
                                           user |-> Sender.login ]) ]
\* The payload of a ping: no repository
P_ping == [ EmptyPayload EXCEPT !.zen = Some(<< "z", "e", "n" >>), !.sender = Some(Sender) ]

D1 == << "d", "1" >>
D2 == << "d", "2" >>

Request(eventType, deliveryId, payload) ==
    [ eventType |-> eventType, deliveryId |-> deliveryId, payload |-> payload ]

\* The webhook deliveries the environment chooses from.
Requests ==
    { Request(T_push, D1, P_push1), Request(T_push, D1, P_push2),
      Request(T_push, D2, P_push1), Request(T_push, D1, P_newBranch),
      Request(T_push, D1, P_percent), Request(T_push, D1, P_noRef),
      Request(T_push, D1, P_ping), Request(T_issues, D1, P_issue),
      Request(T_ping, D1, P_ping) }

\* The parsed events the cache is called with directly: two pushes that differ
\* in the head commit only and an issues event, parsed at time t.
ParsedEvents(t) ==
    { parseEvent(r.eventType, r.deliveryId, r.payload, t).value :
        r \in { Request(T_push, D1, P_push1), Request(T_push, D1, P_push2),
                Request(T_issues, D1, P_issue) } }

\* One rate-limit delay after the epoch; the real clock is far beyond it.
StartTime == 3

\* A record of one call: the method, its argument, what it returned, the keys
\* cached when it was called and the [key, entry] pairs it evicted.
Op(name, event, ret, evicted) ==
    [ op |-> name, event |-> event, ret |-> ret, evicted |-> evicted,
      before |-> MapKeys(processedEvents) ]

\* The [key, entry] pairs an insertion of event into m drops again by eviction.
Evicted(m, event, maxSize) ==
    LET inserted == MapSet(m, generateEventKey(event), EntryOf(event))
        after == markAsProcessed(m, event, maxSize)
    IN  { inserted[i] : i \in { j \in 1..Len(inserted) : ~MapHas(after, inserted[j].key) } }

(***************************************************************************)
(* The cache on its own: a client calls its public methods in any order,   *)
(* with parsed events of any earlier parse time, while the sweep timer     *)
(* fires and the clock advances.                                           *)
(***************************************************************************)
InitDedup ==
    /\ now = StartTime
    /\ processedEvents = << >>
    /\ \E arg \in 0..MaxCap : maxCacheSize = ConfiguredMaxCacheSize(arg)
    /\ cacheExpirationMs = ConfiguredCacheExpirationMs(1)
    /\ cleanupTimer = TRUE
    /\ lastMessageTime = 0
    /\ tasks = << >>
    /\ sendLog = << >>
    /\ last = Op("new", None, None, {})
    /\ webhookSecret = << >>
    /\ exchanges = << >>
    /\ running = TRUE

ClientUnchanged == UNCHANGED << lastMessageTime, tasks, sendLog >>
ConfigUnchanged == UNCHANGED << maxCacheSize, cacheExpirationMs >>
ServerUnchanged == UNCHANGED << webhookSecret, exchanges, running >>

IsDuplicateCall(event) ==
    /\ last' = Op("isDuplicate", Some(event), Some(isDuplicate(processedEvents, event)), {})
    /\ UNCHANGED << now, processedEvents, cleanupTimer >>
    /\ ConfigUnchanged /\ ClientUnchanged /\ ServerUnchanged

MarkAsProcessedCall(event) ==
    /\ processedEvents' = markAsProcessed(processedEvents, event, maxCacheSize)
    /\ last' = Op("markAsProcessed", Some(event), None,
                  IF Len(MapSet(processedEvents, generateEventKey(event), EntryOf(event)))
                       > maxCacheSize
                  THEN Evicted(processedEvents, event, maxCacheSize) ELSE {})
    /\ UNCHANGED << now, cleanupTimer >>
    /\ ConfigUnchanged /\ ClientUnchanged /\ ServerUnchanged

CheckAndMarkProcessedCall(event) ==
    LET r == checkAndMarkProcessed(processedEvents, event, maxCacheSize)
    IN  /\ processedEvents' = r.cache
        /\ last' = Op("checkAndMarkProcessed", Some(event), Some(r.ret),
                      IF r.ret THEN {} ELSE Evicted(processedEvents, event, maxCacheSize))
        /\ UNCHANGED << now, cleanupTimer >>
        /\ ConfigUnchanged /\ ClientUnchanged /\ ServerUnchanged

\* The setInterval callback of the constructor
Sweep ==
    /\ cleanupTimer
    /\ processedEvents' = cleanupExpiredEntries(processedEvents, now, cacheExpirationMs)
    /\ UNCHANGED << now, cleanupTimer >>
    /\ ConfigUnchanged /\ ClientUnchanged /\ ServerUnchanged

SweepTimerFires == Sweep /\ last' = Op("cleanupExpiredEntries", None, None, {})

GetCacheStatsCall ==
    /\ last' = Op("getCacheStats", None, Some(getCacheStats(processedEvents, maxCacheSize)), {})
    /\ UNCHANGED << now, processedEvents, cleanupTimer >>
    /\ ConfigUnchanged /\ ClientUnchanged /\ ServerUnchanged

\* A destroy that clears the entries and leaves the timer set
DestroyCall_keepsTimer ==
    /\ processedEvents' = << >>
    /\ last' = Op("destroy", None, None, {})
    /\ UNCHANGED << now, cleanupTimer >>
    /\ ConfigUnchanged /\ ClientUnchanged /\ ServerUnchanged

DestroyCall ==
    /\ cleanupTimer' = FALSE
    /\ processedEvents' = << >>
    /\ last' = Op("destroy", None, None, {})
    /\ UNCHANGED now
    /\ ConfigUnchanged /\ ClientUnchanged /\ ServerUnchanged

ClearCacheCall ==
    /\ processedEvents' = << >>
    /\ last' = Op("clearCache", None, None, {})
    /\ UNCHANGED << now, cleanupTimer >>
    /\ ConfigUnchanged /\ ClientUnchanged /\ ServerUnchanged

\* The clock advances by one tick, up to limit.
ClockAdvances(limit) ==
    /\ now < limit
    /\ now' = now + 1
    /\ UNCHANGED << processedEvents, cleanupTimer, lastMessageTime, tasks, sendLog >>
    /\ ConfigUnchanged /\ ServerUnchanged

Tick == ClockAdvances(StartTime + MaxTime) /\ last' = Op("tick", None, None, {})

NextDedup ==
    \/ \E t \in StartTime..now : \E event \in ParsedEvents(t) :
          \/ IsDuplicateCall(event)
          \/ MarkAsProcessedCall(event)
          \/ CheckAndMarkProcessedCall(event)
    \/ SweepTimerFires
    \/ GetCacheStatsCall
    \/ ClearCacheCall
    \/ DestroyCall
    \/ Tick

SpecDedup == InitDedup /\ [][NextDedup]_vars

(***************************************************************************)
(* A cache of any capacity up to MaxEvictCap that a client fills with      *)
(* distinct events, one delivery after the other.                          *)
(***************************************************************************)
InitEvict ==
    /\ now = StartTime
    /\ processedEvents = << >>
    /\ \E arg \in 1..MaxEvictCap : maxCacheSize = ConfiguredMaxCacheSize(arg)
    /\ cacheExpirationMs = ConfiguredCacheExpirationMs(0)
    /\ cleanupTimer = TRUE
    /\ lastMessageTime = 0
    /\ tasks = << >>
    /\ sendLog = << >>
    /\ last = Op("new", None, None, {})
    /\ webhookSecret = << >>
    /\ exchanges = << >>
    /\ running = TRUE

\* The k-th distinct event: an issues event of delivery k.
DistinctEvent(k) == parseEvent(T_issues, << "d" >> \o ToText(k), P_issue, now).value

\* Event k is the one to insert next.
IsNextInsert(k) ==
    IF k = 1 THEN last.event = None
    ELSE /\ IsSome(last.event)
         /\ Get(last.event).eventId = << "d" >> \o ToText(k - 1)

NextEvict ==
    \E k \in 1..MaxInserts :
       /\ IsNextInsert(k)
       /\ \/ MarkAsProcessedCall(DistinctEvent(k))
          \/ CheckAndMarkProcessedCall(DistinctEvent(k))

SpecEvict == InitEvict /\ [][NextEvict]_vars

(***************************************************************************)
(* Properties of the cache                                                 *)
(***************************************************************************)
IsCall(l, name) == l.op = name

\* Two push events with the same delivery id and repository and different
\* head commits
Siblings(e1, e2) ==
    /\ e1.eventType = T_push /\ e2.eventType = T_push
    /\ e1.eventId = e2.eventId /\ e1.repository = e2.repository
    /\ IsSome(e1.details.headCommit) /\ IsSome(e2.details.headCommit)
    /\ Get(e1.details.headCommit).id # Get(e2.details.headCommit).id

\* C2: checkAndMarkProcessed called twice in a row with the same event, not
\* cached before, returns false and then true.
C2_Idempotent ==
    [][ ( /\ IsCall(last, "checkAndMarkProcessed") /\ last.ret = Some(FALSE)
          /\ IsCall(last', "checkAndMarkProcessed") /\ last'.event = last.event )
        => last'.ret = Some(TRUE) ]_vars

\* C5: in every state the cache holds at most maxCacheSize entries, also right
\* after an insertion that overflowed it.
C5_EvictionBound == Len(processedEvents) <= maxCacheSize

\* An insertion has overflowed the cache and eviction has run.
C5_Witness ==
    /\ last.op \in { "markAsProcessed", "checkAndMarkProcessed" }
    /\ last.evicted # {}
    /\ Len(processedEvents) <= maxCacheSize

\* C6: every entry an eviction removes is at most as recent as every entry it
\* keeps.
C6_EvictsOldest ==
    \A p \in last.evicted : \A i \in 1..Len(processedEvents) :
        p.entry.timestamp <= processedEvents[i].entry.timestamp

\* An eviction has removed an entry and kept a strictly more recent one that
\* was inserted before it.
C6_Witness ==
    /\ last.evicted # {}
    /\ \E p \in last.evicted : \E i \in 1..Len(processedEvents) :
          /\ p.entry.timestamp < processedEvents[i].entry.timestamp
          /\ processedEvents[i].key \in last.before
          /\ p.key \notin last.before

\* C7: after checkAndMarkProcessed of a push event, checkAndMarkProcessed of a
\* push event with the same delivery id and repository and another head
\* commit, not cached before the first call, returns false.
C7_HeadCommitInKey ==
    [][ ( /\ IsCall(last, "checkAndMarkProcessed")
          /\ IsCall(last', "checkAndMarkProcessed")
          /\ Siblings(Get(last.event), Get(last'.event))
          /\ generateEventKey(Get(last'.event)) \notin last.before )
        => last'.ret = Some(FALSE) ]_vars

\* Two pushes that differ in the head commit only have been checked one after
\* the other, both were new, and both are cached.
C7_Witness ==
    /\ IsCall(last, "checkAndMarkProcessed") /\ last.ret = Some(FALSE)
    /\ \E i \in 1..Len(processedEvents) :
          /\ processedEvents[i].key # generateEventKey(Get(last.event))
          /\ processedEvents[i].entry.eventId = Get(last.event).eventId
          /\ processedEvents[i].entry.eventType = T_push
          /\ Get(last.event).eventType = T_push
    /\ MapHas(processedEvents, generateEventKey(Get(last.event)))

\* C8: isDuplicate returns true exactly when an entry is stored under the
\* event's key, whatever the age of the entry, and the call changes nothing.
C8_IsDuplicate ==
    /\ [](IsCall(last, "isDuplicate") =>
            Get(last.ret) = (\E i \in 1..Len(processedEvents) :
                               processedEvents[i].key = generateEventKey(Get(last.event))))
    /\ [][ IsCall(last', "isDuplicate") =>
            UNCHANGED << now, processedEvents, maxCacheSize, cacheExpirationMs,
                         cleanupTimer >> ]_vars

\* isDuplicate has returned true for an entry older than the expiration window
\* that no sweep has removed yet.
C8_Witness ==
    /\ IsCall(last, "isDuplicate") /\ last.ret = Some(TRUE)
    /\ \E i \in 1..Len(processedEvents) :
          /\ processedEvents[i].key = generateEventKey(Get(last.event))
          /\ now - processedEvents[i].entry.timestamp > cacheExpirationMs

\* C20: a destroy() call leaves the cache empty and the sweep timer cancelled,
\* and once the timer is cancelled it stays cancelled and no sweep runs on
\* the cache any more, whatever is added to it later.
C20_Destroy ==
    [][ /\ IsCall(last', "destroy") => (Len(processedEvents') = 0 /\ ~cleanupTimer')
        /\ ~cleanupTimer => ( /\ ~cleanupTimer'
                              /\ ~IsCall(last', "cleanupExpiredEntries") ) ]_vars

\* destroy() has just been called on a cache that held entries.
C20_Witness ==
    /\ IsCall(last, "destroy")
    /\ last.before # {}
    /\ Len(processedEvents) = 0
    /\ ~cleanupTimer

\* C21: a run of the sweep removes the entries older than the expiration
\* window and no other: what it leaves is, in the same order and unchanged,
\* every entry whose age is at most the window.
C21_ExpirySweep ==
    [][ IsCall(last', "cleanupExpiredEntries")
        => /\ processedEvents' =
                SelectSeq(processedEvents,
                          LAMBDA p : now - p.entry.timestamp <= cacheExpirationMs)
           /\ UNCHANGED << now, maxCacheSize, cacheExpirationMs, cleanupTimer >> ]_vars

\* A sweep has removed an entry and kept one whose age equals the window.
C21_Witness ==
    /\ IsCall(last, "cleanupExpiredEntries")
    /\ last.before \ MapKeys(processedEvents) # {}
    /\ \E i \in 1..Len(processedEvents) :
          now - processedEvents[i].entry.timestamp = cacheExpirationMs

\* C28: getCacheStats changes nothing of the cache; the size it reports is
\* the number of entries, maxSize is the configured capacity, and oldestEntry
\* is absent exactly when the cache is empty and is otherwise the least
\* timestamp of the entries.
C28_StatsSnapshot ==
    [][ IsCall(last', "getCacheStats")
        => LET stats == Get(last'.ret)
               stamps == { processedEvents[i].entry.timestamp :
                             i \in 1..Len(processedEvents) }
           IN  /\ UNCHANGED << processedEvents, maxCacheSize, cacheExpirationMs,
                               cleanupTimer >>
               /\ stats.size = Len(processedEvents)
               /\ stats.maxSize = maxCacheSize
               /\ (stats.oldestEntry = None) <=> (processedEvents = << >>)
               /\ processedEvents # << >>
                    => /\ Get(stats.oldestEntry) \in stamps
                       /\ \A t \in stamps : Get(stats.oldestEntry) <= t ]_vars

\* The statistics of a cache whose first entry is not its oldest.
C28_Witness ==
    /\ IsCall(last, "getCacheStats")
    /\ Len(processedEvents) >= 2
    /\ Get(Get(last.ret).oldestEntry) < processedEvents[1].entry.timestamp
    /\ Get(last.ret).size = Len(processedEvents)

\* C29: the entry stored under a key is never mutated: whatever operation
\* runs, a key cached before and after it holds the same eventId, eventType,
\* repository and timestamp.
C29_EntryImmutable ==
    [][ \A i \in 1..Len(processedEvents) : \A j \in 1..Len(processedEvents') :
          processedEvents[i].key = processedEvents'[j].key
            => processedEvents[i].entry = processedEvents'[j].entry ]_vars

\* C30: an eviction removes at least one entry and leaves exactly
\* floor(maxCacheSize * 0.9) entries; it is triggered only by an insertion into
\* a full cache, and an insertion of a new key that triggers none adds exactly
\* one entry, so that maxCacheSize - floor(maxCacheSize * 0.9) distinct
\* insertions follow an eviction before the next one.
C30_TrimsToNinety ==
    [][ /\ last'.evicted # {}
          => /\ Cardinality(last'.evicted) >= 1
             /\ Len(processedEvents') = (maxCacheSize * 9) \div 10
             /\ Len(processedEvents) = maxCacheSize
        /\ last'.evicted = {} => Len(processedEvents') = Len(processedEvents) + 1 ]_vars

\* A second eviction of one cache, which removes three entries or more.
C30_Witness ==
    /\ Cardinality(last.evicted) >= 3
    /\ Len(processedEvents) = (maxCacheSize * 9) \div 10
    /\ ~MapHas(processedEvents, generateEventKey(DistinctEvent(1)))
    /\ \A p \in last.evicted : p.key # generateEventKey(DistinctEvent(1))

\* The timestamps of the entries of m do not decrease in insertion order.
TimestampsInOrder(m) ==
    \A i \in 1..(Len(m) - 1) : m[i].entry.timestamp <= m[i + 1].entry.timestamp

\* C35: in a cache of maxCacheSize >= 2 whose timestamps do not decrease in
\* insertion order, the new entry included, the cache holds an entry under
\* the key of e when markAsProcessed(e) returns, also when the insertion
\* triggered an eviction.
C35_InsertedEntrySurvives ==
    [][ ( /\ IsCall(last', "markAsProcessed")
          /\ maxCacheSize >= 2
          /\ TimestampsInOrder(MapSet(processedEvents,
                                      generateEventKey(Get(last'.event)),
                                      EntryOf(Get(last'.event)))) )
        => /\ MapHas(processedEvents', generateEventKey(Get(last'.event)))
           /\ \A p \in last'.evicted : p.key # generateEventKey(Get(last'.event)) ]_vars

\* markAsProcessed(e) has overflowed a cache of two entries or more and the
\* eviction has removed an entry as old as the one of e, which is kept.
C35_Witness ==
    /\ IsCall(last, "markAsProcessed")
    /\ maxCacheSize >= 2
    /\ last.evicted # {}
    /\ \E p \in last.evicted : p.entry.timestamp = Get(last.event).timestamp
    /\ MapHas(processedEvents, generateEventKey(Get(last.event)))
    /\ TimestampsInOrder(processedEvents)

(***************************************************************************)
(* TelegramMessageFormatter                                                *)
(***************************************************************************)
\* The character U+2022 that starts a commit line
Bullet == "U+2022"
NewLine == "\n"
HexDigits == << "0", "1", "2", "3", "4", "5", "6", "7", "8", "9",
                "A", "B", "C", "D", "E", "F" >>
IsHex(c) == \E i \in 1..16 : HexDigits[i] = c \/ LowerChar(HexDigits[i]) = c
HexValue(c) == (CHOOSE i \in 1..16 : HexDigits[i] = c \/ LowerChar(HexDigits[i]) = c) - 1
\* The characters of the escapes the sample messages use, by character code.
CharOfCode == [ code \in { 10, 32, 37, 65 } |->
                  CASE code = 10 -> NewLine [] code = 32 -> " "
                    [] code = 37 -> "%" [] code = 65 -> "A" ]

\* message.replace(/\+/g, ' ')
PlusToSpace(s) == [ i \in 1..Len(s) |-> IF s[i] = "+" THEN " " ELSE s[i] ]

\* decodeURIComponent: a per-cent sign that two hexadecimal digits do not
\* follow throws a URIError; otherwise each escape becomes its character.  The
\* digits of an escape are no per-cent signs, so that every per-cent sign of a
\* text that decodes starts an escape.
decodeURIComponent(s) ==
    LET starts == { i \in 1..Len(s) : s[i] = "%" }
        malformed == \E i \in starts :
                        i + 2 > Len(s) \/ ~IsHex(s[i + 1]) \/ ~IsHex(s[i + 2])
        decoded == [ i \in 1..Len(s) |->
                       IF i \in starts
                       THEN Some(CharOfCode[16 * HexValue(s[i + 1]) + HexValue(s[i + 2])])
                       ELSE IF (i - 1) \in starts \/ (i - 2) \in starts THEN None
                       ELSE Some(s[i]) ]
        kept == SelectSeq(decoded, IsSome)
    IN  IF malformed THEN Fault ELSE Ok([ i \in 1..Len(kept) |-> Get(kept[i]) ])

\* decodedMessage.split('\n')[0] || decodedMessage
FirstLine(s) ==
    LET i == IndexOf(s, << NewLine >>)
        first == IF i = 0 THEN s ELSE SubSeq(s, 1, i - 1)
    IN  IF first = << >> THEN s ELSE first

TruncateLength == 60
Truncate(s) ==
    IF Len(s) > TruncateLength THEN SubSeq(s, 1, TruncateLength) \o << ".", ".", "." >> ELSE s

\* The line of one commit, '' for a commit without message; it faults when the
\* message does not decode.
CommitLine(commit) ==
    IF ~Truthy(commit.message) THEN Ok(<< >>)
    ELSE LET decoded == decodeURIComponent(PlusToSpace(Get(commit.message)))
         IN  IF decoded.fault THEN Fault
             ELSE Ok(<< Bullet, " " >> \o toLowerCase(Truncate(FirstLine(decoded.value)))
                     \o << NewLine >>)

RECURSIVE CommitLines(_)
CommitLines(commits) ==
    IF commits = << >> THEN Ok(<< >>)
    ELSE LET line == CommitLine(Head(commits))
         IN  IF line.fault THEN Fault
             ELSE LET rest == CommitLines(Tail(commits))
                  IN  IF rest.fault THEN Fault ELSE Ok(line.value \o rest.value)

FileSet(commits, kind) ==
    UNION { { commits[i][kind][j] : j \in 1..Len(commits[i][kind]) } : i \in 1..Len(commits) }

ViewChanges(linkUrl) ==
    << "<", "a", " ", "h", "r", "e", "f", "=", "\"" >> \o linkUrl
    \o << "\"", ">", "v", "i", "e", "w", " ", "c", "h", "a", "n", "g", "e", "s",
          "<", "/", "a", ">" >>

\* PushMessageTemplate.format
PushMessageTemplate_format(event) ==
    LET d == event.details
        commits == IF IsSome(d.commits) THEN Get(d.commits) ELSE << >>
        commitCount == Len(commits)
        totalFiles == Cardinality(FileSet(commits, "added"))
                      + Cardinality(FileSet(commits, "removed"))
                      + Cardinality(FileSet(commits, "modified"))
        header == toLowerCase(event.repository) \o << "@" >> \o toLowerCase(d.branch)
                  \o << " ", "p", "u", "s", "h", "e", "d", " ", "b", "y", " " >>
                  \o toLowerCase(event.sender)
                  \o ( IF commitCount > 1
                       THEN << " ", "(" >> \o ToText(commitCount)
                            \o << " ", "c", "o", "m", "m", "i", "t", "s", ")" >>
                       ELSE << >> )
                  \o << NewLine, NewLine >>
        lines == CommitLines(Slice(commits, 3))
        more == IF commitCount > 3
                THEN << Bullet, " ", ".", ".", ".", " ", "a", "n", "d", " " >>
                     \o ToText(commitCount - 3)
                     \o << " ", "m", "o", "r", "e", " ", "c", "o", "m", "m", "i", "t", "s",
                           NewLine >>
                ELSE << >>
        linkUrl == IF Truthy(d.compareUrl) THEN Get(d.compareUrl) ELSE event.repositoryUrl
        footer == IF totalFiles > 0
                  THEN << NewLine >> \o ToText(totalFiles)
                       \o ( IF totalFiles = 1 THEN << " ", "f", "i", "l", "e" >>
                            ELSE << " ", "f", "i", "l", "e", "s" >> )
                       \o << " ", "c", "h", "a", "n", "g", "e", "d", " ", Bullet, " " >>
                       \o ViewChanges(linkUrl)
                  ELSE << NewLine >> \o ViewChanges(linkUrl)
    IN  IF d.isNewBranch \/ d.isDeleteBranch THEN Ok(<< >>)
        ELSE IF lines.fault THEN Fault
        ELSE Ok(header \o lines.value \o more \o footer)

\* TelegramMessageFormatter.formatMessage
formatMessage(event) ==
    IF event.eventType = T_push THEN PushMessageTemplate_format(event) ELSE Ok(<< >>)

(***************************************************************************)
(* TelegramClient                                                          *)
(***************************************************************************)
\* 1000 / 30 ms, in ticks
RATE_LIMIT_DELAY == 3

\* The delay waitForRateLimit suspends its caller for, 0 for none
RateLimitShortfall(t, lastTime) ==
    IF t - lastTime < RATE_LIMIT_DELAY THEN RATE_LIMIT_DELAY - (t - lastTime) ELSE 0

\* One sendMessage invocation: who called, with what text, when
SendCall(t, text) == [ task |-> t, text |-> text, time |-> now ]

(***************************************************************************)
(* NotificationService: the orchestrator.  A task is one invocation of     *)
(* processGitHubEvent; each action runs a task from one suspension point   *)
(* to the next, as the event loop does.                                    *)
(***************************************************************************)
IdleTask ==
    [ pc |-> "idle", request |-> None, stages |-> << >>, outcome |-> "none",
      dedup |-> None, key |-> None, message |-> None, wakeAt |-> 0 ]

\* Tasks are numbered in the order in which they are invoked.
NextToStart(t) ==
    /\ tasks[t].pc = "idle"
    /\ \A u \in DOMAIN tasks : u < t => tasks[u].pc # "idle"

\* An earlier issues delivery, parsed and marked long ago
OldEvent == parseEvent(T_issues, D2, P_issue, 0).value

Init ==
    /\ now = StartTime
    /\ maxCacheSize = ConfiguredMaxCacheSize(0)
    /\ cacheExpirationMs = ConfiguredCacheExpirationMs(0)
    /\ processedEvents \in { << >>, markAsProcessed(<< >>, OldEvent, ConfiguredMaxCacheSize(0)) }
    /\ cleanupTimer = TRUE
    /\ lastMessageTime = 0
    /\ tasks = [ t \in 1..NumTasks |-> IdleTask ]
    /\ sendLog = << >>
    /\ last = [ op |-> "new", event |-> None, ret |-> None, evicted |-> {}, before |-> {} ]
    /\ webhookSecret = << >>
    /\ exchanges = << >>
    /\ running = TRUE

\* Pipelines that leave out a step: the return for a ping, the check for the
\* repository property, or the parsing and marking of events that are not
\* pushes.
PipelineVariant(r, t, cache, maxSize, skipsPing, checksRepository, marksNonPush) ==
    LET parsed == parseEvent(r.eventType, r.deliveryId, r.payload, t)
        chk == checkAndMarkProcessed(cache, parsed.value, maxSize)
        fmt == formatMessage(parsed.value)
        End(stages, outcome, dedup, key, message, c) ==
            [ stages |-> stages, outcome |-> outcome, dedup |-> dedup, key |-> key,
              message |-> message, cache |-> c ]
        s1 == << "received" >>
        s2 == Append(s1, "repository-checked")
        s4 == s2 \o << "parsed", "dedup-checked" >>
        s5 == Append(s4, "formatted")
    IN  IF skipsPing /\ r.eventType = T_ping
        THEN End(s1, "skipped-ping", None, None, None, cache)
        ELSE IF checksRepository /\ ~IsSome(r.payload.repository)
             THEN End(s2, "skipped-no-repository", None, None, None, cache)
        ELSE IF parsed.fault THEN End(s2, "fault", None, None, None, cache)
        ELSE IF ~marksNonPush /\ r.eventType # T_push
             THEN End(s2, "skipped-non-push", None, None, None, cache)
        ELSE IF chk.ret
             THEN End(s4, "skipped-duplicate", Some(TRUE),
                      Some(generateEventKey(parsed.value)), None, chk.cache)
        ELSE IF r.eventType # T_push
             THEN End(s4, "skipped-non-push", Some(FALSE),
                      Some(generateEventKey(parsed.value)), None, chk.cache)
        ELSE IF fmt.fault
             THEN End(s4, "fault", Some(FALSE), Some(generateEventKey(parsed.value)),
                      None, chk.cache)
        ELSE End(s5, "sending", Some(FALSE), Some(generateEventKey(parsed.value)),
                 Some(fmt.value), chk.cache)

\* A pipeline that sends a ping through the parser and the cache
RunPipeline_parsesPing(r, t, cache, maxSize) ==
    PipelineVariant(r, t, cache, maxSize, FALSE, TRUE, TRUE)

\* A pipeline that parses a payload without looking for its repository
RunPipeline_noRepositoryCheck(r, t, cache, maxSize) ==
    PipelineVariant(r, t, cache, maxSize, TRUE, FALSE, TRUE)

\* A pipeline that drops events that are not pushes before the cache
RunPipeline_dropsNonPush(r, t, cache, maxSize) ==
    PipelineVariant(r, t, cache, maxSize, TRUE, TRUE, FALSE)

\* A pipeline that logs a duplicate and goes on instead of returning
RunPipeline_ignoresDuplicate(r, t, cache, maxSize) ==
    LET parsed == parseEvent(r.eventType, r.deliveryId, r.payload, t)
        chk == checkAndMarkProcessed(cache, parsed.value, maxSize)
        fmt == formatMessage(parsed.value)
        End(stages, outcome, dedup, key, message, c) ==
            [ stages |-> stages, outcome |-> outcome, dedup |-> dedup, key |-> key,
              message |-> message, cache |-> c ]
        s1 == << "received" >>
        s2 == Append(s1, "repository-checked")
        s3 == Append(s2, "parsed")
        s4 == Append(s3, "dedup-checked")
        s5 == Append(s4, "formatted")
    IN  IF r.eventType = T_ping THEN End(s1, "skipped-ping", None, None, None, cache)
        ELSE IF ~IsSome(r.payload.repository)
             THEN End(s2, "skipped-no-repository", None, None, None, cache)
        ELSE IF parsed.fault THEN End(s2, "fault", None, None, None, cache)
        ELSE IF r.eventType # T_push
             THEN End(s4, "skipped-non-push", Some(chk.ret),
                      Some(generateEventKey(parsed.value)), None, chk.cache)
        ELSE IF fmt.fault
             THEN End(s4, "fault", Some(chk.ret), Some(generateEventKey(parsed.value)),
                      None, chk.cache)
        ELSE End(s5, "sending", Some(chk.ret), Some(generateEventKey(parsed.value)),
                 Some(fmt.value), chk.cache)

\* A pipeline that takes a fault of the parser for a payload it cannot use and
\* returns normally
RunPipeline_swallowsParseFault(r, t, cache, maxSize) ==
    LET run == PipelineVariant(r, t, cache, maxSize, TRUE, TRUE, TRUE)
    IN  IF run.outcome = "fault" /\ run.dedup = None
        THEN [ run EXCEPT !.outcome = "skipped-no-repository" ]
        ELSE run

\* The synchronous part of processGitHubEvent(r.eventType, r.deliveryId,
\* r.payload) up to the call of sendTelegramNotification: the stages passed,
\* how it ended ("sending" when it goes on to deliver), and the cache it leaves.
RunPipeline(r, t, cache, maxSize) ==
    LET parsed == parseEvent(r.eventType, r.deliveryId, r.payload, t)
        chk == checkAndMarkProcessed(cache, parsed.value, maxSize)
        fmt == formatMessage(parsed.value)
        End(stages, outcome, dedup, key, message, c) ==
            [ stages |-> stages, outcome |-> outcome, dedup |-> dedup, key |-> key,
              message |-> message, cache |-> c ]
        s1 == << "received" >>
        s2 == Append(s1, "repository-checked")
        s3 == Append(s2, "parsed")
        s4 == Append(s3, "dedup-checked")
        s5 == Append(s4, "formatted")
    IN  IF r.eventType = T_ping THEN End(s1, "skipped-ping", None, None, None, cache)
        ELSE IF ~IsSome(r.payload.repository)
             THEN End(s2, "skipped-no-repository", None, None, None, cache)
        ELSE IF parsed.fault THEN End(s2, "fault", None, None, None, cache)
        ELSE IF chk.ret
             THEN End(s4, "skipped-duplicate", Some(TRUE),
                      Some(generateEventKey(parsed.value)), None, chk.cache)
        ELSE IF r.eventType # T_push
             THEN End(s4, "skipped-non-push", Some(FALSE),
                      Some(generateEventKey(parsed.value)), None, chk.cache)
        ELSE IF fmt.fault
             THEN End(s4, "fault", Some(FALSE), Some(generateEventKey(parsed.value)),
                      None, chk.cache)
        ELSE End(s5, "sending", Some(FALSE), Some(generateEventKey(parsed.value)),
                 Some(fmt.value), chk.cache)

\* A webhook delivery is handed to processGitHubEvent, which runs until it
\* returns, throws or suspends: in waitForRateLimit's timer when the last send
\* is less than the delay ago, else in the HTTP request of sendMessage.
ProcessGitHubEvent(t, r) ==
    LET run == RunPipeline(r, now, processedEvents, maxCacheSize)
        shortfall == RateLimitShortfall(now, lastMessageTime)
        base == [ IdleTask EXCEPT !.request = Some(r), !.stages = run.stages,
                                  !.dedup = run.dedup, !.key = run.key,
                                  !.message = run.message ]
    IN  /\ NextToStart(t)
        /\ processedEvents' = run.cache
        /\ IF run.outcome # "sending"
           THEN /\ tasks' = [ tasks EXCEPT ![t] =
                                [ base EXCEPT !.pc = "done", !.outcome = run.outcome ] ]
                /\ UNCHANGED << lastMessageTime, sendLog >>
           ELSE IF shortfall > 0
           THEN /\ tasks' = [ tasks EXCEPT ![t] =
                                [ base EXCEPT !.pc = "waiting", !.wakeAt = now + shortfall ] ]
                /\ UNCHANGED << lastMessageTime, sendLog >>
           ELSE /\ tasks' = [ tasks EXCEPT ![t] = [ base EXCEPT !.pc = "posting" ] ]
                /\ lastMessageTime' = now
                /\ sendLog' = Append(sendLog, SendCall(t, Get(run.message)))
        /\ UNCHANGED << now, cleanupTimer, last >>
        /\ ConfigUnchanged

\* The timer of waitForRateLimit fires, not before its time: the caller records
\* the time of the send and calls sendMessage.
RateLimitTimerFires(t) ==
    /\ tasks[t].pc = "waiting"
    /\ now >= tasks[t].wakeAt
    /\ lastMessageTime' = now
    /\ sendLog' = Append(sendLog, SendCall(t, Get(tasks[t].message)))
    /\ tasks' = [ tasks EXCEPT ![t].pc = "posting" ]
    /\ UNCHANGED << now, processedEvents, cleanupTimer, last >>
    /\ ConfigUnchanged /\ ServerUnchanged

\* A client that swallows the fault of a send and returns as after a success
TelegramResponds_swallowsFault(t, ok) ==
    /\ tasks[t].pc = "posting"
    /\ tasks' = [ tasks EXCEPT ![t] = [ @ EXCEPT !.pc = "done", !.outcome = "delivered",
                                                 !.stages = Append(@, "delivered") ] ]
    /\ UNCHANGED << now, processedEvents, cleanupTimer, lastMessageTime, sendLog, last >>
    /\ ConfigUnchanged

\* A client that sends once more after a send has faulted
TelegramResponds_retries(t, ok) ==
    /\ tasks[t].pc = "posting"
    /\ IF ok \/ Cardinality({ i \in 1..Len(sendLog) : sendLog[i].task = t }) > 1
       THEN /\ tasks' = [ tasks EXCEPT ![t] =
                            IF ok THEN [ @ EXCEPT !.pc = "done", !.outcome = "delivered",
                                                  !.stages = Append(@, "delivered") ]
                            ELSE [ @ EXCEPT !.pc = "done", !.outcome = "fault" ] ]
            /\ UNCHANGED sendLog
       ELSE /\ sendLog' = Append(sendLog, SendCall(t, Get(tasks[t].message)))
            /\ UNCHANGED tasks
    /\ UNCHANGED << now, processedEvents, cleanupTimer, lastMessageTime, last >>
    /\ ConfigUnchanged

\* An orchestrator that takes the entry of the event out of the cache when the
\* send has faulted
TelegramResponds_rollsBack(t, ok) ==
    /\ tasks[t].pc = "posting"
    /\ tasks' = [ tasks EXCEPT ![t] =
                    IF ok THEN [ @ EXCEPT !.pc = "done", !.outcome = "delivered",
                                          !.stages = Append(@, "delivered") ]
                    ELSE [ @ EXCEPT !.pc = "done", !.outcome = "fault" ] ]
    /\ processedEvents' = IF ok THEN processedEvents
                          ELSE MapDeleteAll(processedEvents, { Get(tasks[t].key) })
    /\ UNCHANGED << now, cleanupTimer, lastMessageTime, sendLog, last >>
    /\ ConfigUnchanged

\* The Telegram API answers the request of sendMessage (ok), or rejects it or
\* cannot be reached (~ok): sendMessage returns or throws, and so does the task.
TelegramResponds(t, ok) ==
    /\ tasks[t].pc = "posting"
    /\ tasks' = [ tasks EXCEPT ![t] =
                    IF ok THEN [ @ EXCEPT !.pc = "done", !.outcome = "delivered",
                                          !.stages = Append(@, "delivered") ]
                    ELSE [ @ EXCEPT !.pc = "done", !.outcome = "fault" ] ]
    /\ UNCHANGED << now, processedEvents, cleanupTimer, lastMessageTime, sendLog, last >>
    /\ ConfigUnchanged

ServiceSweepTimerFires == Sweep /\ UNCHANGED last

ClockTick == ClockAdvances(StartTime + MaxClock) /\ UNCHANGED last

Next ==
    \/ \E t \in DOMAIN tasks :
          NextToStart(t) /\ \E r \in Requests : ProcessGitHubEvent(t, r) /\ ServerUnchanged
    \/ \E t \in DOMAIN tasks : RateLimitTimerFires(t)
    \/ \E t \in DOMAIN tasks : \E ok \in BOOLEAN :
          TelegramResponds(t, ok) /\ ServerUnchanged
    \/ ServiceSweepTimerFires
    \/ ClockTick

Spec == Init /\ [][Next]_vars

(***************************************************************************)
(* The NotificationService over a time longer than the expiration window   *)
(* of its cache: the delivery of one push arrives again and again, and the *)
(* cache is swept and destroyed in between.                                *)
(***************************************************************************)
MaxServiceClock == DefaultCacheExpirationMs + 2

ServiceRequests == { Request(T_push, D1, P_push1) }

InitService ==
    /\ now = StartTime
    /\ maxCacheSize = ConfiguredMaxCacheSize(0)
    /\ cacheExpirationMs = ConfiguredCacheExpirationMs(0)
    /\ processedEvents = << >>
    /\ cleanupTimer = TRUE
    /\ lastMessageTime = 0
    /\ tasks = [ t \in 1..NumTasks |-> IdleTask ]
    /\ sendLog = << >>
    /\ last = [ op |-> "new", event |-> None, ret |-> None, evicted |-> {}, before |-> {} ]
    /\ webhookSecret = << >>
    /\ exchanges = << >>
    /\ running = TRUE

\* A destroy that clears the timer and keeps the entries
ServiceDestroyCall_keepsEntries ==
    /\ cleanupTimer' = FALSE
    /\ UNCHANGED << now, processedEvents, last >>
    /\ ConfigUnchanged /\ ClientUnchanged /\ ServerUnchanged

\* NotificationService.destroy(): the destroy of the cache
ServiceDestroyCall ==
    /\ cleanupTimer' = FALSE
    /\ processedEvents' = << >>
    /\ UNCHANGED << now, last >>
    /\ ConfigUnchanged /\ ClientUnchanged /\ ServerUnchanged

ServiceClockTick == ClockAdvances(StartTime + MaxServiceClock) /\ UNCHANGED last

NextService ==
    \/ \E t \in DOMAIN tasks :
          NextToStart(t) /\ \E r \in ServiceRequests : ProcessGitHubEvent(t, r) /\ ServerUnchanged
    \/ \E t \in DOMAIN tasks : RateLimitTimerFires(t)
    \/ \E t \in DOMAIN tasks : \E ok \in BOOLEAN :
          TelegramResponds(t, ok) /\ ServerUnchanged
    \/ ServiceSweepTimerFires
    \/ ServiceDestroyCall
    \/ ServiceClockTick

SpecService == InitService /\ [][NextService]_vars

(***************************************************************************)
(* The NotificationService with the test message of GET /test-telegram:    *)
(* sendTestMessage is called while webhook deliveries are processed.       *)
(***************************************************************************)
MaxTestMessages == 1

\* The text of the test message
Text_test == << "T", "e", "s", "t" >>

\* The sendMessage calls made for test messages
TestSends == { i \in 1..Len(sendLog) : sendLog[i].task = 0 }

\* NotificationService.sendTestMessage(): sendFormattedMessage builds the
\* message and calls sendMessage, which posts it; waitForRateLimit is not
\* called and lastMessageTime is not written.
SendTestMessageCall ==
    /\ last.op # "sendTestMessage"
    /\ Cardinality(TestSends) < MaxTestMessages
    /\ sendLog' = Append(sendLog, SendCall(0, Text_test))
    /\ last' = [ op |-> "sendTestMessage", event |-> None, ret |-> None,
                 evicted |-> {}, before |-> {} ]
    /\ UNCHANGED << now, processedEvents, cleanupTimer, lastMessageTime, tasks >>
    /\ ConfigUnchanged /\ ServerUnchanged

\* The Telegram API answers the request of the test message: sendTestMessage
\* returns (ok) or logs 'Failed to send test message' and rethrows (~ok).
TestMessageEnds(ok) ==
    /\ last.op = "sendTestMessage"
    /\ last' = [ op |-> "sendTestMessage-ended", event |-> None, ret |-> Some(ok),
                 evicted |-> {}, before |-> {} ]
    /\ UNCHANGED << now, processedEvents, cleanupTimer >>
    /\ ConfigUnchanged /\ ClientUnchanged /\ ServerUnchanged

NextTestMessage ==
    \/ Next
    \/ SendTestMessageCall
    \/ \E ok \in BOOLEAN : TestMessageEnds(ok)

SpecTestMessage == Init /\ [][NextTestMessage]_vars

(***************************************************************************)
(* The Telegram client on its own: callers call sendMessageWithRateLimit   *)
(* on one instance at any time.                                            *)
(***************************************************************************)
Text_hi == << "h", "i" >>

InitRate ==
    /\ now = StartTime
    /\ maxCacheSize = ConfiguredMaxCacheSize(0)
    /\ cacheExpirationMs = ConfiguredCacheExpirationMs(0)
    /\ processedEvents = << >>
    /\ cleanupTimer = TRUE
    /\ lastMessageTime = 0
    /\ tasks = [ t \in 1..NumCallers |-> IdleTask ]
    /\ sendLog = << >>
    /\ last = [ op |-> "new", event |-> None, ret |-> None, evicted |-> {}, before |-> {} ]
    /\ webhookSecret = << >>
    /\ exchanges = << >>
    /\ running = TRUE

\* sendMessageWithRateLimit(message) up to its first suspension
SendMessageWithRateLimitCall(t, text) ==
    LET shortfall == RateLimitShortfall(now, lastMessageTime)
        base == [ IdleTask EXCEPT !.message = Some(text) ]
    IN  /\ NextToStart(t)
        /\ IF shortfall > 0
           THEN /\ tasks' = [ tasks EXCEPT ![t] =
                                [ base EXCEPT !.pc = "waiting", !.wakeAt = now + shortfall ] ]
                /\ UNCHANGED << lastMessageTime, sendLog >>
           ELSE /\ tasks' = [ tasks EXCEPT ![t] = [ base EXCEPT !.pc = "posting" ] ]
                /\ lastMessageTime' = now
                /\ sendLog' = Append(sendLog, SendCall(t, text))
        /\ UNCHANGED << now, processedEvents, cleanupTimer, last >>
        /\ ConfigUnchanged /\ ServerUnchanged

NextRate ==
    \/ \E t \in DOMAIN tasks : SendMessageWithRateLimitCall(t, Text_hi)
    \/ \E t \in DOMAIN tasks : RateLimitTimerFires(t)
    \/ \E t \in DOMAIN tasks : \E ok \in BOOLEAN :
          TelegramResponds(t, ok) /\ ServerUnchanged
    \/ ClockTick

SpecRate == InitRate /\ [][NextRate]_vars

(***************************************************************************)
(* The Telegram client with one sequential caller, which awaits each send  *)
(* before it issues the next.  Here time is counted in thirds of a         *)
(* millisecond, so that both the delay of 1000/30 ms and the millisecond   *)
(* of Date.now() are whole numbers: now is the real time, Date_now the     *)
(* clock value the client reads, and lastMessageTime is in milliseconds.   *)
(***************************************************************************)
ThirdsPerMs == 3
\* 1000 / 30 ms, in thirds of a millisecond
RateLimitDelayThirds == 100
\* The first call is made 34 ms after the epoch, at any third of a millisecond.
StartSeq == 102

\* Date.now(): the real time in whole milliseconds
Date_now == now \div ThirdsPerMs

\* The delay waitForRateLimit passes to setTimeout, in thirds of a millisecond
waitForRateLimit_delay(nowMs, lastMs) ==
    IF ThirdsPerMs * (nowMs - lastMs) < RateLimitDelayThirds
    THEN RateLimitDelayThirds - ThirdsPerMs * (nowMs - lastMs)
    ELSE 0

InitSeq ==
    /\ now \in StartSeq..(StartSeq + ThirdsPerMs - 1)
    /\ maxCacheSize = ConfiguredMaxCacheSize(0)
    /\ cacheExpirationMs = ConfiguredCacheExpirationMs(0)
    /\ processedEvents = << >>
    /\ cleanupTimer = TRUE
    /\ lastMessageTime = 0
    /\ tasks = [ t \in 1..NumCallers |-> IdleTask ]
    /\ sendLog = << >>
    /\ last = [ op |-> "new", event |-> None, ret |-> None, evicted |-> {}, before |-> {} ]
    /\ webhookSecret = << >>
    /\ exchanges = << >>
    /\ running = TRUE

\* The caller issues its next sendMessageWithRateLimit once the one before has
\* returned or thrown; the call runs up to its first suspension.
SequentialSendCall(t, text) ==
    LET delay == waitForRateLimit_delay(Date_now, lastMessageTime)
        base == [ IdleTask EXCEPT !.message = Some(text) ]
    IN  /\ NextToStart(t)
        /\ \A u \in DOMAIN tasks : u < t => tasks[u].pc = "done"
        /\ IF delay > 0
           THEN /\ tasks' = [ tasks EXCEPT ![t] =
                                [ base EXCEPT !.pc = "waiting", !.wakeAt = now + delay ] ]
                /\ UNCHANGED << lastMessageTime, sendLog >>
           ELSE /\ tasks' = [ tasks EXCEPT ![t] = [ base EXCEPT !.pc = "posting" ] ]
                /\ lastMessageTime' = Date_now
                /\ sendLog' = Append(sendLog, SendCall(t, text))
        /\ UNCHANGED << now, processedEvents, cleanupTimer, last >>
        /\ ConfigUnchanged /\ ServerUnchanged

\* The timer of waitForRateLimit fires, not before its time.
SequentialTimerFires(t) ==
    /\ tasks[t].pc = "waiting"
    /\ now >= tasks[t].wakeAt
    /\ lastMessageTime' = Date_now
    /\ sendLog' = Append(sendLog, SendCall(t, Get(tasks[t].message)))
    /\ tasks' = [ tasks EXCEPT ![t].pc = "posting" ]
    /\ UNCHANGED << now, processedEvents, cleanupTimer, last >>
    /\ ConfigUnchanged /\ ServerUnchanged

\* A third of a millisecond passes while a timer is pending or a request is
\* in flight.
SequentialClockTick ==
    /\ \E t \in DOMAIN tasks :
          \/ tasks[t].pc = "waiting" /\ now < tasks[t].wakeAt + MaxLate
          \/ tasks[t].pc = "posting" /\ now < sendLog[Len(sendLog)].time + MaxLatency
    /\ now' = now + 1
    /\ UNCHANGED << processedEvents, cleanupTimer, lastMessageTime, tasks, sendLog, last >>
    /\ ConfigUnchanged /\ ServerUnchanged

NextSeq ==
    \/ \E t \in DOMAIN tasks : SequentialSendCall(t, Text_hi)
    \/ \E t \in DOMAIN tasks : SequentialTimerFires(t)
    \/ \E t \in DOMAIN tasks : \E ok \in BOOLEAN :
          TelegramResponds(t, ok) /\ ServerUnchanged
    \/ SequentialClockTick

SpecSeq == InitSeq /\ [][NextSeq]_vars

(***************************************************************************)
(* The parser and the formatter on their own: a delivery is parsed and the *)
(* parsed event is formatted.  The deliveries are pushes of 0..MaxCommits  *)
(* commits, with and without files and compare URL, to an existing, a new  *)
(* and a deleted branch, with commit messages of every shape the formatter *)
(* distinguishes, and deliveries of other types.                           *)
(***************************************************************************)
Repeat(c, n) == [ i \in 1..n |-> c ]

\* 60 characters on one line
Msg_60 == << "A" >> \o Repeat("b", 59)
\* 61 characters on one line, the last one a z
Msg_61 == << "A" >> \o Repeat("b", 59) \o << "z" >>
\* Two lines
Msg_twoLines == << "F", "i", "x", NewLine, "m", "o", "r", "e" >>
\* 63 characters that decode to the 61 of Msg_61
Msg_escaped61 == << "%", "4", "1" >> \o Repeat("b", 59) \o << "z" >>
\* 62 characters that decode to the 60 of Msg_60
Msg_escaped60 == << "%", "4", "1" >> \o Repeat("b", 59)
\* An empty first line, then a line of 60 characters
Msg_blankThenLong == << NewLine >> \o Repeat("b", 59) \o << "z" >>

MessageVariants ==
    { None, Some(Msg_fix), Some(Msg_percent), Some(Msg_60), Some(Msg_61),
      Some(Msg_twoLines), Some(Msg_escaped61), Some(Msg_escaped60),
      Some(Msg_blankThenLong) }

\* n commits c1..cn with one message and one list of added files
Commits(n, message, added) ==
    [ k \in 1..n |-> Commit(<< "c" >> \o ToText(k), message, added) ]

FormatRequests ==
    { Request(T_push, D1,
              [ PushPayload(before, after, Commits(n, message, added))
                  EXCEPT !.compare = compare ]) :
        n \in 0..MaxCommits, message \in MessageVariants,
        added \in { << >>, << File_a >> }, compare \in { None, Some(CompareUrl) },
        before \in { Sha_a, ZeroSha }, after \in { Sha_b, ZeroSha } }
    \cup { Request(T_issues, D1, P_issue), Request(T_ping, D1, P_issue),
           Request(T_push, D1, P_noRef), Request(T_push, D1, P_noCommits) }

\* A record of the delivery and of what the last call made of it
FormatOp(name, request, event, ret) ==
    [ op |-> name, request |-> request, event |-> event, ret |-> ret,
      evicted |-> {}, before |-> {} ]

InitFormat ==
    /\ now = StartTime
    /\ maxCacheSize = ConfiguredMaxCacheSize(0)
    /\ cacheExpirationMs = ConfiguredCacheExpirationMs(0)
    /\ processedEvents = << >>
    /\ cleanupTimer = TRUE
    /\ lastMessageTime = 0
    /\ tasks = << >>
    /\ sendLog = << >>
    /\ \E r \in FormatRequests : last = FormatOp("request", r, None, None)
    /\ webhookSecret = << >>
    /\ exchanges = << >>
    /\ running = TRUE

FormatUnchanged ==
    /\ UNCHANGED << now, processedEvents, cleanupTimer >>
    /\ ConfigUnchanged /\ ClientUnchanged /\ ServerUnchanged

\* parseEvent(eventType, deliveryId, payload) returns the event or throws.
ParseEventCall ==
    LET r == last.request
        parsed == parseEvent(r.eventType, r.deliveryId, r.payload, now)
    IN  /\ last.op = "request"
        /\ last' = IF parsed.fault THEN FormatOp("parseEvent", r, None, Some(Fault))
                   ELSE FormatOp("parseEvent", r, Some(parsed.value), Some(Ok(<< >>)))
        /\ FormatUnchanged

\* formatMessage(event) returns the text or throws.
FormatMessageCall ==
    /\ last.op = "parseEvent"
    /\ IsSome(last.event)
    /\ last' = FormatOp("formatMessage", last.request, last.event,
                        Some(formatMessage(Get(last.event))))
    /\ FormatUnchanged

NextFormat ==
    \/ ParseEventCall
    \/ FormatMessageCall

SpecFormat == InitFormat /\ [][NextFormat]_vars

(***************************************************************************)
(* SignatureValidator and the signature middleware                         *)
(***************************************************************************)
Sha256Prefix == << "s", "h", "a", "2", "5", "6", "=" >>
Secret_s == << "k", "e", "y" >>

\* The raw request bodies of the sample requests, as the sender signs them.
Raw_push == << "r", "1" >>
Raw_issue == << "r", "2" >>
Raw_issueNoSender == << "r", "3" >>
Raw_ping == << "r", "4" >>
Raw_formBad == << "r", "5" >>
Raw_formEmpty == << "r", "6" >>
RawBodies ==
    << Raw_push, Raw_issue, Raw_issueNoSender, Raw_ping, Raw_formBad, Raw_formEmpty >>

\* crypto.createHmac('sha256', secret).update(payload).digest('hex'), cut down
\* to one byte: a digest in lower-case hex that differs for every two sample
\* bodies and for every two keys, and is never 00.
createHmac_digest(secret, payload) ==
    LET i == CHOOSE j \in 1..Len(RawBodies) : RawBodies[j] = payload
        k == IF secret = << >> THEN 1 ELSE 9
    IN  << LowerChar(HexDigits[k + 1]), LowerChar(HexDigits[i + 1]) >>

\* Buffer.from(s, 'hex'): the bytes of the hex pairs up to the first pair that
\* is not hex; the rest of s is dropped.
RECURSIVE BufferFromHex(_)
BufferFromHex(s) ==
    IF Len(s) >= 2 /\ IsHex(s[1]) /\ IsHex(s[2])
    THEN << 16 * HexValue(s[1]) + HexValue(s[2]) >> \o BufferFromHex(SubSeq(s, 3, Len(s)))
    ELSE << >>

\* A validation that compares the lengths of the two buffers only
validateSignature_lengthOnly(secret, payload, signature) ==
    IF ~Truthy(signature) THEN FALSE
    ELSE Len(BufferFromHex(ReplaceFirst(Get(signature), Sha256Prefix, << >>)))
           = Len(BufferFromHex(createHmac_digest(secret, payload)))

validateSignature(secret, payload, signature) ==
    IF ~Truthy(signature) THEN FALSE
    ELSE LET cleanSignature == ReplaceFirst(Get(signature), Sha256Prefix, << >>)
             expectedSignature == createHmac_digest(secret, payload)
             signatureBuffer == BufferFromHex(cleanSignature)
             expectedBuffer == BufferFromHex(expectedSignature)
         IN  IF Len(signatureBuffer) # Len(expectedBuffer) THEN FALSE
             ELSE signatureBuffer = expectedBuffer

generateSignature(secret, payload) == createHmac_digest(secret, payload)

(***************************************************************************)
(* The validator on its own: a validator of any secret is asked about any  *)
(* body and any signature header, among them the signatures of every body  *)
(* under every secret, with and without the sha256= prefix and with text   *)
(* after the digest, the empty header and the missing one.                 *)
(***************************************************************************)
Secrets == { << >>, Secret_s }
Bodies == { RawBodies[i] : i \in 1..Len(RawBodies) }
SignatureHeaders ==
    { None, Some(<< >>), Some(Sha256Prefix) }
    \cup { Some(Sha256Prefix \o generateSignature(s, b)) : s \in Secrets, b \in Bodies }
    \cup { Some(generateSignature(s, b)) : s \in Secrets, b \in Bodies }
    \cup { Some(Sha256Prefix \o generateSignature(s, b) \o << "z", "z" >>) :
             s \in Secrets, b \in Bodies }

InitSignature ==
    /\ now = StartTime
    /\ maxCacheSize = ConfiguredMaxCacheSize(0)
    /\ cacheExpirationMs = ConfiguredCacheExpirationMs(0)
    /\ processedEvents = << >>
    /\ cleanupTimer = TRUE
    /\ lastMessageTime = 0
    /\ tasks = << >>
    /\ sendLog = << >>
    /\ \E s \in Secrets : \E b \in Bodies : \E h \in SignatureHeaders :
          last = FormatOp("request", [ secret |-> s, payload |-> b, signature |-> h ],
                          None, None)
    /\ webhookSecret = << >>
    /\ exchanges = << >>
    /\ running = TRUE

\* new SignatureValidator(secret).validateSignature(payload, signature)
ValidateSignatureCall ==
    LET r == last.request
    IN  /\ last.op = "request"
        /\ last' = FormatOp("validateSignature", r, None,
                            Some(validateSignature(r.secret, r.payload, r.signature)))
        /\ FormatUnchanged

NextSignature == ValidateSignatureCall

SpecSignature == InitSignature /\ [][NextSignature]_vars

\* What a middleware or handler does with a request: it answers it, or passes
\* it on (status None), in the controller's case to processGitHubEvent.
Answer(status, body) == [ status |-> Some(status), body |-> body, invoke |-> None ]
PassOn(r) == [ status |-> None, body |-> "", invoke |-> r ]

\* The middleware createSignatureMiddleware(webhookSecret) returns
createSignatureMiddleware(secret, req) ==
    IF secret = << >> THEN PassOn(None)
    ELSE IF ~Truthy(req.signature) THEN Answer(401, "Missing signature header")
    ELSE IF ~validateSignature(secret, req.rawBody, req.signature)
         THEN Answer(401, "Invalid signature")
    ELSE PassOn(None)

(***************************************************************************)
(* WebhookController and the application: POST /webhook passes the         *)
(* signature middleware and then handleWebhook.  req.body is what the body *)
(* parsers of the framework leave: the JSON object of a JSON request, or   *)
(* the fields of a form, of which payload holds the JSON text.             *)
(***************************************************************************)
JsonBody(payload) == [ payload |-> None, json |-> payload ]
FormBody(text) == [ payload |-> Some(text), json |-> EmptyPayload ]

Json_emptyObject == << "{", "}" >>
Json_unclosed == << "{" >>

\* JSON.parse on the texts of the sample forms: {} is the object without
\* properties, { a SyntaxError.
JSON_parse(text) ==
    CASE text = Json_emptyObject -> Ok(EmptyPayload)
      [] text = Json_unclosed -> Fault

\* An issues payload without the sender object
P_issueNoSender == [ P_issue EXCEPT !.sender = None ]

HttpRequest(eventType, deliveryId, signature, rawBody, body) ==
    [ eventType |-> eventType, deliveryId |-> deliveryId, signature |-> signature,
      rawBody |-> rawBody, body |-> body ]

\* The signature header a sender that holds the secret computes
Signed(secret, rawBody) == Some(Sha256Prefix \o createHmac_digest(secret, rawBody))
\* A signature header of the right form with another digest
BadSignature == Some(Sha256Prefix \o << "0", "0" >>)

\* The POST /webhook requests the environment chooses from.
HttpRequests(secret) ==
    { HttpRequest(Some(T_push), Some(D1), Signed(secret, Raw_push), Raw_push, JsonBody(P_push1)),
      HttpRequest(Some(T_push), Some(D2), Signed(secret, Raw_push), Raw_push, JsonBody(P_push1)),
      HttpRequest(Some(T_push), Some(D1), BadSignature, Raw_push, JsonBody(P_push1)),
      HttpRequest(Some(T_push), Some(D1), None, Raw_push, JsonBody(P_push1)),
      HttpRequest(None, Some(D1), Signed(secret, Raw_push), Raw_push, JsonBody(P_push1)),
      HttpRequest(Some(T_push), None, Signed(secret, Raw_push), Raw_push, JsonBody(P_push1)),
      HttpRequest(Some(T_issues), Some(D1), Signed(secret, Raw_issue), Raw_issue,
                  JsonBody(P_issue)),
      HttpRequest(Some(T_issues), Some(D1), Signed(secret, Raw_issueNoSender),
                  Raw_issueNoSender, JsonBody(P_issueNoSender)),
      HttpRequest(Some(T_push), Some(D1), Signed(secret, Raw_formBad), Raw_formBad,
                  FormBody(Json_unclosed)),
      HttpRequest(Some(T_push), Some(D1), Signed(secret, Raw_formEmpty), Raw_formEmpty,
                  FormBody(Json_emptyObject)),
      HttpRequest(Some(T_ping), Some(D1), Signed(secret, Raw_ping), Raw_ping, JsonBody(P_ping)),
      HttpRequest(Some(T_ping), Some(D1), Signed(secret, Raw_push), Raw_push,
                  JsonBody(P_push1)) }

\* A controller that does not look for the signature header
handleWebhook_ignoresSignatureHeader(req) ==
    IF ~Truthy(req.eventType) \/ ~Truthy(req.deliveryId)
    THEN Answer(400, "Missing required webhook headers")
    ELSE [ status |-> Some(200), body |-> "Webhook received successfully",
           invoke |-> Some(Request(Get(req.eventType), Get(req.deliveryId),
                                   req.body.json)) ]

\* handleWebhook up to its response: the answer, and the call of
\* processGitHubEvent it makes before a 200.
handleWebhook(req) ==
    IF ~Truthy(req.eventType) \/ ~Truthy(req.deliveryId) \/ ~Truthy(req.signature)
    THEN Answer(400, "Missing required webhook headers")
    ELSE IF Truthy(req.body.payload)
    THEN LET parsed == JSON_parse(Get(req.body.payload))
         IN  IF parsed.fault THEN Answer(400, "Invalid payload format")
             ELSE [ status |-> Some(200), body |-> "Webhook received successfully",
                    invoke |-> Some(Request(Get(req.eventType), Get(req.deliveryId),
                                            parsed.value)) ]
    ELSE [ status |-> Some(200), body |-> "Webhook received successfully",
           invoke |-> Some(Request(Get(req.eventType), Get(req.deliveryId),
                                   req.body.json)) ]

\* The route POST /webhook of startServer: the signature middleware, then the
\* controller.
PostWebhook(secret, req) ==
    LET checked == createSignatureMiddleware(secret, req)
    IN  IF IsSome(checked.status) THEN checked ELSE handleWebhook(req)

\* getEnvVar(name, defaultValue): the value of the variable, the default when
\* it is unset or empty.
getEnvVar(value, defaultValue) == IF Truthy(value) THEN Get(value) ELSE defaultValue

\* loadConfig().github.webhookSecret for an environment whose
\* GITHUB_WEBHOOK_SECRET is env
loadConfig_webhookSecret(env) == getEnvVar(env, << >>)

\* One POST /webhook request and what came of it: the response, the
\* logger.error messages written for it, and the answer of the Telegram API
\* to its sendMessage call.
IdleExchange ==
    [ request |-> None, status |-> None, body |-> "", errors |-> << >>, reply |-> None ]

\* The logger.error messages of a fault thrown by the parser or the formatter:
\* the catch of processGitHubEvent, which rethrows, and the catch callback of
\* the controller, which does not.
PipelineFaultLog == << "Failed to process GitHub event", "Async event processing failed" >>

\* The logger.error messages of a fault thrown by the HTTP request of
\* sendMessage: each caller up to the controller catches, logs and, but for
\* the controller, rethrows.
DeliveryFaultLog ==
    << "Failed to send Telegram message", "Failed to send Telegram notification" >>
    \o PipelineFaultLog

InitHttp ==
    /\ now = StartTime
    /\ maxCacheSize = ConfiguredMaxCacheSize(0)
    /\ cacheExpirationMs = ConfiguredCacheExpirationMs(0)
    /\ processedEvents = << >>
    /\ cleanupTimer = TRUE
    /\ lastMessageTime = 0
    /\ tasks = [ t \in 1..NumTasks |-> IdleTask ]
    /\ sendLog = << >>
    /\ last = [ op |-> "new", event |-> None, ret |-> None, evicted |-> {}, before |-> {} ]
    /\ \E env \in { None, Some(Secret_s) } : webhookSecret = loadConfig_webhookSecret(env)
    /\ exchanges = [ t \in 1..NumTasks |-> IdleExchange ]
    /\ running = TRUE

\* A controller that sends the response first and leaves the call of
\* processGitHubEvent to a later turn of the event loop
WebhookArrives_acksFirst(t, req) ==
    LET answer == PostWebhook(webhookSecret, req)
        exchange == [ IdleExchange EXCEPT !.request = Some(req), !.status = answer.status,
                                          !.body = answer.body ]
    IN  /\ running
        /\ NextToStart(t)
        /\ tasks' = [ tasks EXCEPT ![t] =
                        IF IsSome(answer.invoke)
                        THEN [ @ EXCEPT !.pc = "deferred", !.request = answer.invoke ]
                        ELSE [ @ EXCEPT !.pc = "rejected" ] ]
        /\ exchanges' = [ exchanges EXCEPT ![t] = exchange ]
        /\ UNCHANGED << now, processedEvents, cleanupTimer, lastMessageTime, sendLog, last >>
        /\ ConfigUnchanged
        /\ UNCHANGED << webhookSecret, running >>

\* A POST /webhook request arrives and runs through the middleware and the
\* controller, and through processGitHubEvent up to its first suspension.
WebhookArrives(t, req) ==
    LET answer == PostWebhook(webhookSecret, req)
        exchange == [ IdleExchange EXCEPT !.request = Some(req), !.status = answer.status,
                                          !.body = answer.body ]
    IN  /\ running
        /\ NextToStart(t)
        /\ IF IsSome(answer.invoke)
           THEN /\ ProcessGitHubEvent(t, Get(answer.invoke))
                /\ exchanges' = [ exchanges EXCEPT ![t] =
                                    [ exchange EXCEPT !.errors =
                                        IF tasks'[t].outcome = "fault"
                                        THEN PipelineFaultLog ELSE << >> ] ]
           ELSE /\ tasks' = [ tasks EXCEPT ![t].pc = "rejected" ]
                /\ exchanges' = [ exchanges EXCEPT ![t] = exchange ]
                /\ UNCHANGED << now, processedEvents, cleanupTimer, lastMessageTime,
                                sendLog, last >>
                /\ ConfigUnchanged
        /\ UNCHANGED << webhookSecret, running >>

\* A controller that answers 500 when the delivery faults
DeliveryEnds_reportsFault(t, ok) ==
    /\ running
    /\ TelegramResponds(t, ok)
    /\ exchanges' = [ exchanges EXCEPT ![t] =
                        [ @ EXCEPT !.reply = Some(ok),
                                   !.status = IF ok THEN @ ELSE Some(500),
                                   !.errors = IF ok THEN @ ELSE @ \o DeliveryFaultLog ] ]
    /\ UNCHANGED << webhookSecret, running >>

\* The Telegram API answers or fails the request of a delivery; a fault runs
\* up to the catch callback of the controller.
DeliveryEnds(t, ok) ==
    /\ running
    /\ TelegramResponds(t, ok)
    /\ exchanges' = [ exchanges EXCEPT ![t] =
                        [ @ EXCEPT !.reply = Some(ok),
                                   !.errors = IF ok THEN @ ELSE @ \o DeliveryFaultLog ] ]
    /\ UNCHANGED << webhookSecret, running >>

\* The handler of SIGTERM and of SIGINT: destroy() of the service, which is
\* destroy() of the cache, then process.exit(0).
SignalReceived(signal) ==
    /\ running
    /\ cleanupTimer' = FALSE
    /\ processedEvents' = << >>
    /\ running' = FALSE
    /\ UNCHANGED << now, lastMessageTime, tasks, sendLog, last, webhookSecret, exchanges >>
    /\ ConfigUnchanged

NextHttp ==
    \/ \E t \in DOMAIN tasks :
          NextToStart(t) /\ \E req \in HttpRequests(webhookSecret) : WebhookArrives(t, req)
    \/ \E t \in DOMAIN tasks : running /\ RateLimitTimerFires(t)
    \/ \E t \in DOMAIN tasks : \E ok \in BOOLEAN : DeliveryEnds(t, ok)
    \/ running /\ ServiceSweepTimerFires
    \/ running /\ ClockTick
    \/ \E signal \in { "SIGTERM", "SIGINT" } : SignalReceived(signal)

SpecHttp == InitHttp /\ [][NextHttp]_vars

(***************************************************************************)
(* Properties of the Telegram client                                       *)
(***************************************************************************)
\* C4: any two consecutive sendMessage invocations of one client are at least
\* the rate-limit delay apart, however its callers interleave.
C4_MinSpacing ==
    \A i \in 1..(Len(sendLog) - 1) :
        sendLog[i + 1].time - sendLog[i].time >= RATE_LIMIT_DELAY

\* C22: when three sends are issued through one client, each awaited before
\* the next is issued, the third send starts at least 2 x (1000/30) ms after
\* the first.
C22_SequentialSpacing ==
    Len(sendLog) >= 3
      => sendLog[3].time - sendLog[1].time >= 2 * RateLimitDelayThirds

(***************************************************************************)
(* Properties of the orchestrator                                          *)
(***************************************************************************)
SendsBy(t) == { i \in 1..Len(sendLog) : sendLog[i].task = t }
Started(t) == tasks[t].pc # "idle"
ParsedOf(r) == parseEvent(r.eventType, r.deliveryId, r.payload, 0)
CallOfTask(t) == Get(tasks[t].request)

\* A push that neither creates nor deletes a branch and whose payload parses
NormalPush(r) ==
    /\ r.eventType = T_push
    /\ IsSome(r.payload.repository)
    /\ ~ParsedOf(r).fault
    /\ ~ParsedOf(r).value.details.isNewBranch
    /\ ~ParsedOf(r).value.details.isDeleteBranch

\* Every commit message is URL-encoded, as the source of the payload sends it.
WellFormed(r) ==
    \A i \in 1..Len(Get(r.payload.commits)) :
        LET m == Get(r.payload.commits)[i].message
        IN  Truthy(m) => ~decodeURIComponent(PlusToSpace(Get(m))).fault

Checked == { t \in DOMAIN tasks : tasks[t].dedup # None }

\* C3: among concurrent tasks whose events have the same key, exactly one sees
\* checkAndMarkProcessed return false, and the entry of a task that saw false
\* is in the cache before any other task runs.
C3_AtomicCheckAndMark ==
    /\ []( ( /\ Checked # {}
             /\ \A t1, t2 \in Checked : tasks[t1].key = tasks[t2].key )
           => Cardinality({ t \in Checked : tasks[t].dedup = Some(FALSE) }) = 1 )
    /\ [][ \A t \in DOMAIN tasks :
             (tasks[t].dedup = None /\ tasks'[t].dedup = Some(FALSE))
             => MapHas(processedEvents', Get(tasks'[t].key)) ]_vars

\* Two tasks with the same key have run while the first was still in flight:
\* the first saw false, the second true.
C3_Witness ==
    \E t1, t2 \in DOMAIN tasks :
        /\ t1 # t2
        /\ tasks[t1].key # None /\ tasks[t1].key = tasks[t2].key
        /\ tasks[t1].dedup = Some(FALSE) /\ tasks[t1].pc \in { "waiting", "posting" }
        /\ tasks[t2].dedup = Some(TRUE)

\* C9: every push event that passed the duplicate check as new has made at
\* least one sendMessage call by the time its task has ended.
C9_AtLeastOnce ==
    \A t \in DOMAIN tasks :
        ( /\ tasks[t].pc = "done"
          /\ tasks[t].dedup = Some(FALSE)
          /\ Get(tasks[t].request).eventType = T_push )
        => SendsBy(t) # {}

Stages == << "received", "repository-checked", "parsed", "dedup-checked", "formatted",
             "delivered" >>

\* C10 as stated: every task that has ended has passed the stages received,
\* repository-checked, parsed and dedup-checked in this order and has ended as
\* skipped-duplicate, skipped-non-push or delivered.
C10_AsStated ==
    \A t \in DOMAIN tasks :
        tasks[t].pc = "done"
        => /\ Len(tasks[t].stages) >= 4
           /\ SubSeq(tasks[t].stages, 1, 4) = SubSeq(Stages, 1, 4)
           /\ tasks[t].outcome \in { "skipped-duplicate", "skipped-non-push", "delivered" }

\* C10, amended: the stages a task has passed are an initial part of received,
\* repository-checked, parsed, dedup-checked, formatted, delivered; a task that
\* has ended has one outcome, which fits the stage it stopped at; and a task
\* makes a sendMessage call only after a duplicate check that returned false
\* and after formatting.
C10_StateMachine ==
    \A t \in DOMAIN tasks :
        LET k == Len(tasks[t].stages)
            o == tasks[t].outcome
        IN  /\ k <= 6 /\ tasks[t].stages = SubSeq(Stages, 1, k)
            /\ (k >= 4) = (tasks[t].dedup # None)
            /\ (k >= 5) => tasks[t].dedup = Some(FALSE)
            /\ SendsBy(t) # {} => (k >= 5 /\ tasks[t].dedup = Some(FALSE))
            /\ (k = 6) => SendsBy(t) # {}
            /\ (tasks[t].pc = "done") = (o # "none")
            /\ o = "skipped-ping" => k = 1
            /\ o = "skipped-no-repository" => k = 2
            /\ o = "skipped-duplicate" => (k = 4 /\ tasks[t].dedup = Some(TRUE))
            /\ o = "skipped-non-push" => (k = 4 /\ tasks[t].dedup = Some(FALSE))
            /\ o = "delivered" => k = 6
            /\ o = "fault" => k \in { 2, 4, 5 }
            /\ o \in { "none", "skipped-ping", "skipped-no-repository", "skipped-duplicate",
                       "skipped-non-push", "delivered", "fault" }

\* Tasks have ended in a ping skip, a duplicate skip and a delivery.
C10_Witness ==
    /\ \E t \in DOMAIN tasks : tasks[t].outcome = "delivered"
    /\ \E t \in DOMAIN tasks : tasks[t].outcome \in { "skipped-ping", "skipped-duplicate" }

\* C33: processGitHubEvent never calls the delivery client with an empty
\* message text: no sendMessage call carries the empty string, and a push that
\* creates or deletes a branch ends without a sendMessage call.
C33_NoEmptyMessage ==
    /\ \A i \in 1..Len(sendLog) : sendLog[i].text # << >>
    /\ \A t \in DOMAIN tasks :
          ( /\ Started(t)
            /\ CallOfTask(t).eventType = T_push
            /\ IsSome(CallOfTask(t).payload.repository)
            /\ ~ParsedOf(CallOfTask(t)).fault
            /\ \/ ParsedOf(CallOfTask(t)).value.details.isNewBranch
               \/ ParsedOf(CallOfTask(t)).value.details.isDeleteBranch )
          => tasks[t].pc \notin { "waiting", "posting" } /\ SendsBy(t) = {}

\* The call for t ends in a fault in this step, after the event was marked.
FaultsAfterMark(t) ==
    /\ tasks[t].outcome # "fault"
    /\ tasks'[t].outcome = "fault"
    /\ tasks'[t].dedup = Some(FALSE)

\* An earlier call for the event with this key has marked it and has ended in
\* a fault of the formatter or of the send.
FaultedBefore(key) ==
    \E u \in DOMAIN tasks :
        /\ tasks[u].outcome = "fault"
        /\ tasks[u].dedup = Some(FALSE)
        /\ tasks[u].key = Some(key)

\* C34: the entry of an event is in the cache before its delivery is
\* attempted; the fault of the formatter or of the send does not take it out;
\* and a replay of the event (same key) that finds the entry after such a
\* fault is skipped as a duplicate and makes no sendMessage call.
C34_MarkBeforeDeliver ==
    /\ [](\A t \in DOMAIN tasks :
            (tasks[t].pc \in { "waiting", "posting" } \/ SendsBy(t) # {})
            => /\ tasks[t].dedup = Some(FALSE)
               /\ IsSome(tasks[t].key))
    /\ [][ \A t \in DOMAIN tasks :
             /\ ( ~Started(t) /\ tasks'[t].pc \in { "waiting", "posting" } )
                => MapHas(processedEvents', Get(tasks'[t].key))
             /\ FaultsAfterMark(t)
                => IF Started(t) THEN processedEvents' = processedEvents
                   ELSE MapHas(processedEvents', Get(tasks'[t].key))
             /\ ( /\ ~Started(t) /\ Started(t)'
                  /\ tasks'[t].key # None
                  /\ FaultedBefore(Get(tasks'[t].key))
                  /\ MapHas(processedEvents, Get(tasks'[t].key)) )
                => /\ tasks'[t].pc = "done"
                   /\ tasks'[t].outcome = "skipped-duplicate"
                   /\ sendLog' = sendLog
                   /\ processedEvents' = processedEvents ]_vars
    /\ [](\A t \in DOMAIN tasks :
            tasks[t].outcome = "skipped-duplicate" => SendsBy(t) = {})

\* The send of a push has faulted, and a replay of the same delivery has been
\* skipped as a duplicate: one sendMessage call was made in all.
C34_Witness ==
    \E t1, t2 \in DOMAIN tasks :
        /\ t1 < t2
        /\ tasks[t1].request = tasks[t2].request
        /\ tasks[t1].outcome = "fault"
        /\ tasks[t1].dedup = Some(FALSE)
        /\ Cardinality(SendsBy(t1)) = 1
        /\ tasks[t2].outcome = "skipped-duplicate"
        /\ Len(sendLog) = 1

\* The formatter has faulted on a push, and a replay of the same delivery has
\* been skipped as a duplicate: no sendMessage call was made.
C34_Witness_formatFault ==
    \E t1, t2 \in DOMAIN tasks :
        /\ t1 < t2
        /\ tasks[t1].request = tasks[t2].request
        /\ tasks[t1].outcome = "fault"
        /\ tasks[t1].dedup = Some(FALSE)
        /\ SendsBy(t1) = {}
        /\ tasks[t2].outcome = "skipped-duplicate"
        /\ sendLog = << >>

\* The delivery ids of the entries in the cache
CachedDeliveryIds == { processedEvents[i].entry.eventId : i \in 1..Len(processedEvents) }

\* C36: events with different delivery ids are never duplicates of each other:
\* two calls with different delivery ids have different keys, and a call whose
\* delivery id is on no entry of the cache is not a duplicate; so the
\* redelivery of a push under a new delivery id passes the check, is marked
\* and goes on to its own sendMessage call.
C36_NewDeliveryIdIsNew ==
    /\ [](\A t, u \in DOMAIN tasks :
            ( /\ IsSome(tasks[t].key) /\ IsSome(tasks[u].key)
              /\ CallOfTask(t).deliveryId # CallOfTask(u).deliveryId )
            => tasks[t].key # tasks[u].key)
    /\ [][ \A t \in DOMAIN tasks :
             ( /\ ~Started(t) /\ Started(t)'
               /\ tasks'[t].dedup # None
               /\ CallOfTask(t)'.deliveryId \notin CachedDeliveryIds )
             => /\ tasks'[t].dedup = Some(FALSE)
                /\ MapHas(processedEvents', Get(tasks'[t].key))
                /\ ( NormalPush(CallOfTask(t)') /\ WellFormed(CallOfTask(t)') )
                     => tasks'[t].pc \in { "waiting", "posting" } ]_vars

\* A push has been delivered, and its redelivery under another delivery id has
\* been delivered as well: two sendMessage calls with the same text.
C36_Witness ==
    \E t1, t2 \in DOMAIN tasks :
        /\ t1 < t2
        /\ Started(t1) /\ Started(t2)
        /\ CallOfTask(t1).deliveryId # CallOfTask(t2).deliveryId
        /\ CallOfTask(t1).eventType = T_push
        /\ CallOfTask(t1).payload = CallOfTask(t2).payload
        /\ tasks[t1].dedup = Some(FALSE) /\ tasks[t2].dedup = Some(FALSE)
        /\ tasks[t1].outcome = "delivered" /\ tasks[t2].outcome = "delivered"
        /\ Cardinality(SendsBy(t1)) = 1 /\ Cardinality(SendsBy(t2)) = 1
        /\ \A i \in SendsBy(t1) : \A j \in SendsBy(t2) : sendLog[i].text = sendLog[j].text

C37_Witness_destroy ==
    \E t1, t2 \in DOMAIN tasks :
        /\ t1 < t2
        /\ Started(t1) /\ Started(t2)
        /\ ~cleanupTimer
        /\ now <= StartTime + cacheExpirationMs
        /\ tasks[t1].request = tasks[t2].request
        /\ NormalPush(CallOfTask(t1))
        /\ tasks[t1].dedup = Some(FALSE) /\ tasks[t2].dedup = Some(FALSE)
        /\ SendsBy(t1) # {} /\ SendsBy(t2) # {}

\* C39: every sendMessage call the service makes through its TelegramClient,
\* the one of sendTestMessage included, comes after waitForRateLimit, which
\* sets the last-send timestamp to the time of the call.
C39_EverySendThrottled ==
    [][ Len(sendLog') > Len(sendLog) => lastMessageTime' = now ]_vars

(***************************************************************************)
(* Properties of the application                                           *)
(***************************************************************************)
Arrived == { t \in DOMAIN exchanges : IsSome(exchanges[t].request) }
RequestOf(t) == Get(exchanges[t].request)
\* processGitHubEvent has been called for the request of t
Invoked(t) == IsSome(tasks[t].request)

LacksHeader(req) ==
    ~Truthy(req.eventType) \/ ~Truthy(req.deliveryId) \/ ~Truthy(req.signature)

\* C11: every request whose signature header is missing or does not validate
\* against the configured secret is answered 401, and processGitHubEvent is
\* not called for it.
C11_Authentication ==
    \A t \in Arrived :
        ( \/ ~Truthy(RequestOf(t).signature)
          \/ ~validateSignature(webhookSecret, RequestOf(t).rawBody, RequestOf(t).signature) )
        => (exchanges[t].status = Some(401) /\ ~Invoked(t))

\* C12 as stated: every request that lacks one of the three headers is answered
\* 400 with the body 'Missing required webhook headers', and processGitHubEvent
\* is not called for it.
C12_AsStated ==
    \A t \in Arrived :
        LacksHeader(RequestOf(t))
        => /\ exchanges[t].status = Some(400)
           /\ exchanges[t].body = "Missing required webhook headers"
           /\ ~Invoked(t)

\* C12, amended: processGitHubEvent is called for no request that lacks one of
\* the three headers; such a request is answered 400 with the body 'Missing
\* required webhook headers' when the signature middleware lets it pass (no
\* secret is configured, or its signature validates), and 401 by the
\* middleware otherwise.
C12_MissingHeaders ==
    \A t \in Arrived :
        LacksHeader(RequestOf(t))
        => /\ ~Invoked(t)
           /\ IF IsSome(createSignatureMiddleware(webhookSecret, RequestOf(t)).status)
              THEN exchanges[t].status = Some(401)
              ELSE /\ exchanges[t].status = Some(400)
                   /\ exchanges[t].body = "Missing required webhook headers"

\* With a secret configured, a request without the event-type header and one
\* without the signature header have been answered.
C12_Witness ==
    /\ webhookSecret # << >>
    /\ \E t \in Arrived : /\ ~Truthy(RequestOf(t).eventType)
                          /\ exchanges[t].status = Some(400)
    /\ \E t \in Arrived : /\ ~Truthy(RequestOf(t).signature)
                          /\ exchanges[t].status = Some(401)

\* The request has passed the signature middleware and has all three headers.
PassesChecks(req) ==
    /\ ~IsSome(createSignatureMiddleware(webhookSecret, req).status)
    /\ ~LacksHeader(req)

\* The form field payload of the request, when it has one, is JSON text.
PayloadParses(req) ==
    Truthy(req.body.payload) => ~JSON_parse(Get(req.body.payload)).fault

CallOf(t) == Get(tasks[t].request)
\* processGitHubEvent is called for t in this step
Invoking(t) == ~Invoked(t) /\ Invoked(t)'

\* An event that is neither a push nor a ping and has the repository property
NonPush(r) == r.eventType \notin { T_push, T_ping } /\ IsSome(r.payload.repository)

\* C14 as stated: every event that is neither a push nor a ping and has the
\* repository property is parsed and checked and marked in the cache, and is
\* neither formatted nor sent.
C14_AsStated ==
    \A t \in DOMAIN tasks :
        (Invoked(t) /\ NonPush(CallOf(t)))
        => /\ tasks[t].dedup # None
           /\ tasks[t].message = None
           /\ SendsBy(t) = {}

\* C14, amended: an event that is neither a push nor a ping and has the
\* repository property is never formatted and never sent; when the parser
\* accepts its payload, its key is in the cache when the call returns, and the
\* call ends as skipped-non-push or skipped-duplicate; when the parser faults,
\* the call ends in that fault and the cache is left as it was.
C14_NonPush ==
    /\ [](\A t \in DOMAIN tasks :
            (Invoked(t) /\ NonPush(CallOf(t)))
            => /\ tasks[t].message = None
               /\ SendsBy(t) = {}
               /\ Len(tasks[t].stages) <= 4
               /\ tasks[t].pc = "done"
               /\ IF ParsedOf(CallOf(t)).fault
                  THEN tasks[t].outcome = "fault" /\ tasks[t].dedup = None
                  ELSE /\ tasks[t].outcome \in { "skipped-non-push", "skipped-duplicate" }
                       /\ tasks[t].dedup # None)
    /\ [][ \A t \in DOMAIN tasks :
             (Invoking(t) /\ NonPush(CallOf(t)'))
             => IF ParsedOf(CallOf(t)').fault
                THEN processedEvents' = processedEvents
                ELSE MapHas(processedEvents',
                            generateEventKey(ParsedOf(CallOf(t)').value)) ]_vars

\* An issues event has been marked and skipped, and another one has faulted in
\* the parser.
C14_Witness ==
    /\ \E t \in DOMAIN tasks :
          /\ Invoked(t) /\ NonPush(CallOf(t))
          /\ tasks[t].outcome = "skipped-non-push"
          /\ tasks[t].dedup = Some(FALSE)
          /\ MapHas(processedEvents, Get(tasks[t].key))
    /\ \E t \in DOMAIN tasks :
          /\ Invoked(t) /\ NonPush(CallOf(t))
          /\ tasks[t].outcome = "fault"

\* The call for t has returned at once and has left no trace: no entry, no
\* send, no fault logged.
ReturnsAtOnce(t, outcome) ==
    /\ processedEvents' = processedEvents
    /\ sendLog' = sendLog
    /\ lastMessageTime' = lastMessageTime
    /\ tasks'[t].pc = "done"
    /\ tasks'[t].outcome = outcome
    /\ tasks'[t].dedup = None
    /\ exchanges'[t].errors = << >>

\* C15: a call with the event type ping returns normally before the parser,
\* changes no entry of the cache and makes no sendMessage call, now or later,
\* whatever the payload.
C15_PingShortCircuit ==
    /\ [][ \A t \in DOMAIN tasks :
             (Invoking(t) /\ CallOf(t)'.eventType = T_ping)
             => /\ ReturnsAtOnce(t, "skipped-ping")
                /\ tasks'[t].stages = << "received" >> ]_vars
    /\ [](\A t \in DOMAIN tasks :
            (Invoked(t) /\ CallOf(t).eventType = T_ping) => SendsBy(t) = {})

\* A ping whose payload has a repository and a sender has returned, after an
\* earlier event was marked: the entry of that event is all the cache holds.
C15_Witness ==
    \E t1, t2 \in DOMAIN tasks :
        /\ t1 < t2
        /\ tasks[t1].dedup = Some(FALSE)
        /\ Len(processedEvents) = 1
        /\ MapHas(processedEvents, Get(tasks[t1].key))
        /\ Invoked(t2) /\ CallOf(t2).eventType = T_ping
        /\ ~ParsedOf(CallOf(t2)).fault
        /\ tasks[t2].outcome = "skipped-ping"

\* C16: a call whose payload has no repository property, and whose event is
\* not a ping, returns normally after the repository check, leaves the cache
\* unchanged and makes no sendMessage call, now or later.
C16_UnsupportedShape ==
    /\ [][ \A t \in DOMAIN tasks :
             ( /\ Invoking(t)
               /\ CallOf(t)'.eventType # T_ping
               /\ ~IsSome(CallOf(t)'.payload.repository) )
             => /\ ReturnsAtOnce(t, "skipped-no-repository")
                /\ tasks'[t].stages = << "received", "repository-checked" >> ]_vars
    /\ [](\A t \in DOMAIN tasks :
            (Invoked(t) /\ ~IsSome(CallOf(t).payload.repository)) => SendsBy(t) = {})

\* A push without repository has been dropped, after an earlier event was
\* marked: the entry of that event is all the cache holds.
C16_Witness ==
    \E t1, t2 \in DOMAIN tasks :
        /\ t1 < t2
        /\ tasks[t1].dedup = Some(FALSE)
        /\ Len(processedEvents) = 1
        /\ MapHas(processedEvents, Get(tasks[t1].key))
        /\ Invoked(t2) /\ CallOf(t2).eventType = T_push
        /\ ~IsSome(CallOf(t2).payload.repository)
        /\ tasks[t2].outcome = "skipped-no-repository"

\* C17: when the Telegram API rejects the request of a delivery or cannot be
\* reached, the call of processGitHubEvent ends in a fault and not as
\* delivered; sendMessage, sendTelegramNotification and processGitHubEvent log
\* and rethrow it, the catch callback of the controller logs it last and
\* nothing is thrown further; the response stays 200.  A delivery the API
\* accepts ends as delivered with nothing logged.
C17_FaultPropagation ==
    \A t \in DOMAIN exchanges :
        /\ exchanges[t].reply = Some(FALSE)
           => /\ tasks[t].pc = "done"
              /\ tasks[t].outcome = "fault"
              /\ tasks[t].stages = SubSeq(Stages, 1, 5)
              /\ exchanges[t].errors = DeliveryFaultLog
              /\ exchanges[t].errors[Len(exchanges[t].errors)] = "Async event processing failed"
              /\ exchanges[t].status = Some(200)
        /\ exchanges[t].reply = Some(TRUE)
           => /\ tasks[t].outcome = "delivered"
              /\ exchanges[t].errors = << >>

\* The delivery of a push has faulted at the Telegram API.
C17_Witness ==
    \E t \in DOMAIN exchanges :
        /\ exchanges[t].reply = Some(FALSE)
        /\ SendsBy(t) # {}
        /\ tasks[t].outcome = "fault"

\* C18: no call of processGitHubEvent makes more than one sendMessage call,
\* whether the send succeeds or faults.
C18_NoRetry == \A t \in DOMAIN tasks : Cardinality(SendsBy(t)) <= 1

\* A call has ended in the fault of its one send.
C18_Witness ==
    \E t \in DOMAIN tasks :
        /\ tasks[t].pc = "done"
        /\ tasks[t].outcome = "fault"
        /\ tasks[t].stages = SubSeq(Stages, 1, 5)
        /\ Cardinality(SendsBy(t)) = 1

\* C19: when the process has ended after SIGTERM or SIGINT, no delivery is in
\* flight: every call that was waiting for the rate limit or for the Telegram
\* API has completed or failed on its own before.
C19_GracefulTeardown ==
    ~running => \A t \in DOMAIN tasks : tasks[t].pc \notin { "waiting", "posting" }

\* The payload has the repository property and the parser faults on it.
Malformed(r) ==
    r.eventType # T_ping /\ IsSome(r.payload.repository) /\ ParsedOf(r).fault

\* C31: when the parser faults on a payload that has the repository property,
\* the call of processGitHubEvent ends in that fault, which the catch of
\* processGitHubEvent logs and rethrows and the catch callback of the
\* controller logs and swallows: the response is 200 and the server runs on;
\* the cache is left as it was and no sendMessage call is made, now or later.
C31_MalformedPayload ==
    /\ [][ \A t \in DOMAIN tasks :
             (Invoking(t) /\ Malformed(CallOf(t)'))
             => /\ processedEvents' = processedEvents
                /\ sendLog' = sendLog
                /\ lastMessageTime' = lastMessageTime
                /\ tasks'[t].pc = "done"
                /\ tasks'[t].outcome = "fault"
                /\ tasks'[t].dedup = None
                /\ exchanges'[t].errors = PipelineFaultLog
                /\ exchanges'[t].status = Some(200)
                /\ running' ]_vars
    /\ [](\A t \in DOMAIN tasks :
            (Invoked(t) /\ Malformed(CallOf(t)))
            => /\ SendsBy(t) = {}
               /\ exchanges[t].errors = PipelineFaultLog
               /\ exchanges[t].errors[Len(exchanges[t].errors)]
                    = "Async event processing failed")

\* An issues event without sender has faulted in the parser, after an earlier
\* event was marked: the entry of that event is all the cache holds.
C31_Witness ==
    \E t1, t2 \in DOMAIN tasks :
        /\ t1 < t2
        /\ tasks[t1].dedup = Some(FALSE)
        /\ Len(processedEvents) = 1
        /\ MapHas(processedEvents, Get(tasks[t1].key))
        /\ Invoked(t2) /\ Malformed(CallOf(t2))
        /\ tasks[t2].outcome = "fault"
        /\ exchanges[t2].errors = PipelineFaultLog

\* The call for t reaches the duplicate check: no ping, a repository, and a
\* payload the parser takes.
ReachesCheck(r) ==
    r.eventType # T_ping /\ IsSome(r.payload.repository) /\ ~ParsedOf(r).fault

\* The place of a key in the insertion order of the cache
CachePosition(key) == CHOOSE i \in 1..Len(processedEvents) : processedEvents[i].key = key

\* C38: the parse and the check-and-mark of a request run to their end in the
\* step in which handleWebhook handles it, before its 200 is sent and before
\* another request is handled: no other exchange changes in that step, the
\* requests that arrived before have been checked, and so the checks happen
\* in the order of arrival: a duplicate has an earlier arrival that marked its
\* key, and of two events in the cache the one that arrived first was
\* inserted first.
C38_CheckBeforeAck ==
    /\ [][ \A t \in DOMAIN tasks :
             ( ~IsSome(exchanges[t].status) /\ exchanges'[t].status = Some(200) )
             => /\ Invoked(t)'
                /\ ReachesCheck(CallOf(t)')
                     => /\ tasks'[t].dedup
                             = Some(MapHas(processedEvents, Get(tasks'[t].key)))
                        /\ MapHas(processedEvents', Get(tasks'[t].key))
                /\ \A u \in DOMAIN tasks \ { t } :
                     /\ tasks'[u] = tasks[u] /\ exchanges'[u] = exchanges[u]
                     /\ u < t => IsSome(exchanges[u].status)
                     /\ u > t => ~IsSome(exchanges[u].status) ]_vars
    /\ [](\A t \in DOMAIN tasks :
            ( exchanges[t].status = Some(200) /\ ReachesCheck(CallOf(t)) )
            => tasks[t].dedup # None)
    /\ [](\A u \in DOMAIN tasks :
            tasks[u].dedup = Some(TRUE)
            => \E t \in DOMAIN tasks :
                  t < u /\ tasks[t].key = tasks[u].key /\ tasks[t].dedup = Some(FALSE))
    /\ [](\A t, u \in DOMAIN tasks :
            ( /\ t < u
              /\ tasks[t].dedup = Some(FALSE) /\ tasks[u].dedup = Some(FALSE)
              /\ tasks[t].key # tasks[u].key
              /\ MapHas(processedEvents, Get(tasks[t].key))
              /\ MapHas(processedEvents, Get(tasks[u].key)) )
            => CachePosition(Get(tasks[t].key)) < CachePosition(Get(tasks[u].key)))

\* Two requests were answered 200 one after the other; the second was checked
\* and marked while the delivery of the first was not yet made or answered,
\* and the cache holds the two entries in the order of arrival.
C38_Witness ==
    \E t, u \in DOMAIN tasks :
        /\ t < u
        /\ exchanges[t].status = Some(200) /\ exchanges[u].status = Some(200)
        /\ tasks[t].dedup = Some(FALSE) /\ tasks[u].dedup = Some(FALSE)
        /\ tasks[t].pc \in { "waiting", "posting" }
        /\ MapHas(processedEvents, Get(tasks[t].key))
        /\ MapHas(processedEvents, Get(tasks[u].key))
        /\ CachePosition(Get(tasks[t].key)) < CachePosition(Get(tasks[u].key))

(***************************************************************************)
(* Properties of the formatter                                             *)
(***************************************************************************)
Contains(s, pat) == IndexOf(s, pat) # 0
StartsWith(s, pat) == Len(s) >= Len(pat) /\ SubSeq(s, 1, Len(pat)) = pat
Occurrences(s, pat) ==
    Cardinality({ i \in 1..(Len(s) - Len(pat) + 1) : SubSeq(s, i, i + Len(pat) - 1) = pat })

\* formatMessage has been called with the parsed event and has returned text.
Formatted == last.op = "formatMessage" /\ ~Get(last.ret).fault
\* The event is a push to a branch that existed before and exists after.
IsNormalPush(e) ==
    e.eventType = T_push /\ ~e.details.isNewBranch /\ ~e.details.isDeleteBranch

\* What the header of the sample repository, branch and sender reads
Header_acme ==
    << "a", "c", "m", "e", "/", "w", "@", "m", "a", "i", "n", " ",
       "p", "u", "s", "h", "e", "d", " ", "b", "y", " ", "a", "l", "i", "c", "e" >>
Text_commits == << " ", "c", "o", "m", "m", "i", "t", "s" >>
Text_more == << " ", "m", "o", "r", "e" >>
Text_changed == << " ", "c", "h", "a", "n", "g", "e", "d" >>
Text_href == << "<", "a", " ", "h", "r", "e", "f", "=", "\"" >>

\* C23: for a normal push of n commits that is parsed and formatted, the
\* header ends with '(n commits)' when n > 1 and has no suffix otherwise, at
\* most three commits are listed, and a line tells of n - 3 more commits
\* exactly when n > 3.
C23_CommitCounts ==
    ( /\ Formatted
      /\ IsNormalPush(Get(last.event))
      /\ IsSome(last.request.payload.commits) )
      => LET n == Len(Get(last.request.payload.commits))
             text == Get(last.ret).value
             suffix == IF n > 1 THEN << " ", "(" >> \o ToText(n) \o Text_commits \o << ")" >>
                       ELSE << >>
             moreLine == << Bullet, " ", ".", ".", ".", " ", "a", "n", "d", " " >>
                         \o ToText(n - 3) \o Text_more \o Text_commits \o << NewLine >>
         IN  /\ StartsWith(text, Header_acme \o suffix \o << NewLine, NewLine >>)
             /\ Occurrences(text, << NewLine, Bullet >>) <= 3 + (IF n > 3 THEN 1 ELSE 0)
             /\ n > 3 => Contains(text, moreLine)
             /\ n <= 3 => ~Contains(text, Text_more \o Text_commits)

\* C24: formatMessage returns the empty string for an event that is no push
\* and for a push that creates or deletes a branch, and a non-empty string for
\* every other push.
C24_EmptyOrNonEmpty ==
    last.op = "formatMessage"
      => LET e == Get(last.event)
             ret == Get(last.ret)
         IN  IF e.eventType # T_push THEN ret = Ok(<< >>)
             ELSE IF e.details.isNewBranch \/ e.details.isDeleteBranch THEN ret = Ok(<< >>)
             ELSE ~ret.fault /\ ret.value # << >>

\* The push has one commit, which touches no file, and no compare URL.
SingleCommitNoFiles(e) ==
    /\ IsNormalPush(e)
    /\ e.details.commitCount = 1
    /\ FileSet(Get(e.details.commits), "added") = {}
    /\ FileSet(Get(e.details.commits), "removed") = {}
    /\ FileSet(Get(e.details.commits), "modified") = {}
    /\ ~Truthy(e.details.compareUrl)

\* C25: the message of a normal push of one commit without files and without
\* compare URL begins with '<repo>@<branch> pushed by <sender>' in lower case
\* and no '(N commits)' suffix, links to the repository URL and says nothing
\* of files changed.
C25_SingleCommitNoFiles ==
    Formatted /\ SingleCommitNoFiles(Get(last.event))
      => LET text == Get(last.ret).value
         IN  /\ StartsWith(text, Header_acme \o << NewLine, NewLine >>)
             /\ ~Contains(text, Text_commits)
             /\ Contains(text, Text_href \o Get(last.event).repositoryUrl \o << "\"" >>)
             /\ ~Contains(text, Text_changed)

\* Such a push, with a commit message, has been formatted.
C25_Witness ==
    /\ Formatted
    /\ SingleCommitNoFiles(Get(last.event))
    /\ Get(Get(last.event).details.commits)[1].message = Some(Msg_fix)
    /\ Contains(Get(last.ret).value, << Bullet, " ", "f", "i", "x", " ", "i", "t", NewLine >>)

\* The text of s before its first line break
BeforeLineBreak(s) ==
    LET i == IndexOf(s, << NewLine >>)
    IN  IF i = 0 THEN s ELSE SubSeq(s, 1, i - 1)

\* C26: the bullet of a commit holds the first line of the decoded message in
\* lower case: its first 60 characters followed by '...' and nothing more when
\* the line is longer than 60 characters, the whole line and no marker
\* otherwise; the next bullet or the footer follows.
C26_Truncation ==
    ( /\ Formatted
      /\ IsNormalPush(Get(last.event))
      /\ IsSome(Get(last.event).details.commits)
      /\ Get(Get(last.event).details.commits) # << >>
      /\ IsSome(Get(Get(last.event).details.commits)[1].message) )
      => LET message == Get(Get(Get(last.event).details.commits)[1].message)
             line == BeforeLineBreak(decodeURIComponent(PlusToSpace(message)).value)
             shown == IF Len(line) > 60
                      THEN SubSeq(line, 1, 60) \o << ".", ".", "." >> ELSE line
             text == Get(last.ret).value
             body == SubSeq(text, IndexOf(text, << NewLine, NewLine >>) + 2, Len(text))
             bullet == << Bullet, " " >> \o toLowerCase(shown) \o << NewLine >>
         IN  /\ StartsWith(body, bullet)
             /\ body[Len(bullet) + 1] \in { Bullet, NewLine }

\* parseEvent has returned the event of a push payload.
ParsedPush ==
    /\ last.op \in { "parseEvent", "formatMessage" }
    /\ last.request.eventType = T_push
    /\ IsSome(last.event)

\* C32: for every push payload the extractor returns an event for, isNewBranch
\* is true exactly when `before` is the all-zero SHA, isDeleteBranch is true
\* exactly when `after` is the all-zero SHA, details.commits holds the first
\* min(n, 5) commits of the payload in their order, and commitCount is the
\* length n of the whole list of the payload, 0 when the list is missing.
C32_PushExtractor ==
    ParsedPush =>
        LET p == last.request.payload
            d == Get(last.event).details
            n == IF IsSome(p.commits) THEN Len(Get(p.commits)) ELSE 0
        IN  /\ d.isNewBranch <=> (p.before = Some(ZeroSha))
            /\ d.isDeleteBranch <=> (p.after = Some(ZeroSha))
            /\ d.commitCount = n
            /\ IsSome(d.commits) <=> IsSome(p.commits)
            /\ IsSome(d.commits) =>
                  /\ Len(Get(d.commits)) = Min(n, 5)
                  /\ \A i \in 1..Min(n, 5) : Get(d.commits)[i] = Get(p.commits)[i]

\* The extractor has returned the event of a push of six commits that
\* creates its branch: five commits are kept and six are counted.
C32_Witness ==
    /\ ParsedPush
    /\ last.op = "parseEvent"
    /\ IsSome(last.request.payload.commits)
    /\ Len(Get(last.request.payload.commits)) = 6
    /\ Len(Get(Get(last.event).details.commits)) = 5
    /\ Get(last.event).details.commitCount = 6
    /\ Get(last.event).details.isNewBranch
    /\ ~Get(last.event).details.isDeleteBranch

\* The extractor has returned the event of a push without a list of commits.
C32_Witness_missingList ==
    /\ ParsedPush
    /\ ~IsSome(last.request.payload.commits)
    /\ Get(last.event).details.commitCount = 0

(***************************************************************************)
(* Properties of the signature validator                                   *)
(***************************************************************************)
\* C27: a validator of secret S accepts 'sha256=' followed by the signature it
\* generates for the body, rejects the signature it generates for any other
\* body, and rejects an empty or missing signature; it returns in every case.
C27_SignatureCorrectness ==
    last.op = "validateSignature"
      => LET S == last.request.secret
             B == last.request.payload
             signature == last.request.signature
         IN  /\ last.ret \in { Some(TRUE), Some(FALSE) }
             /\ signature = Some(Sha256Prefix \o generateSignature(S, B))
                  => last.ret = Some(TRUE)
             /\ ( \E other \in Bodies \ { B } :
                    signature = Some(Sha256Prefix \o generateSignature(S, other)) )
                  => last.ret = Some(FALSE)
             /\ ~Truthy(signature) => last.ret = Some(FALSE)

\* The signature of another body under the same secret has been rejected.
C27_Witness ==
    /\ last.op = "validateSignature"
    /\ last.request.secret = Secret_s
    /\ last.request.payload = Raw_push
    /\ last.request.signature = Some(Sha256Prefix \o generateSignature(Secret_s, Raw_issue))
    /\ last.ret = Some(FALSE)

====
